---- MODULE Spec2Model ----
(***************************************************************************)
(* Model of blue1's data-access layer: the file-backed store               *)
(* (state.FileDictMonad), the TBA client's fetch-through cache              *)
(* (tba.Tba.make_api_request) and the bot commands that read the counters   *)
(* and set the expiration time (bot.get_cache_hit_rate,                     *)
(* bot.set_cache_expiration_time).                                          *)
(*                                                                          *)
(* Python values are modelled as records so that None can be compared with  *)
(* every other value: None is [none |-> TRUE], a JSON payload is            *)
(* [json |-> "..."], a cache item is [time |-> n, response |-> payload], a  *)
(* requests.Response is [status_code |-> n, body |-> payload].  A dict is a *)
(* function whose DOMAIN is its key set.  An integer stored as a dict value *)
(* is [int |-> n] (the expiration time in state.STATE).                     *)
(***************************************************************************)
EXTENDS Integers, FiniteSets, Sequences, TLC

\* ------------------------------------------------------------------ bounds
MaxClock == 4
MaxRequests == 2

\* ------------------------------------------------------- program constants
TicksPerSecond == 2
HTTP_OK == 200

\* --------------------------------------------------------------- the inputs
None == [none |-> TRUE]
py_int(n) == [int |-> n]

STATE_FILE_PATH == "state.json"
CACHE_FILE_PATH == "cache.json"

\* the two clients the program constructs: tba.TBA (module global, used by
\* events.py and assessment.py) and t (built in __main__, handed to the bot)
Tbas == {"TBA", "t"}
BotTba == "t"

Paths == {"status", "event/2023cabl/matches"}
Payloads == {[json |-> "a"], [json |-> "b"]}
\* what requests.get returns: a success carrying a payload, or a failure
\* status carrying the provider's error document
ErrorBody == [json |-> "Error"]
Responses ==
    [status_code : {200}, body : Payloads]
        \cup [status_code : {404}, body : {ErrorBody}]
\* requests.get raising instead of returning a response
ConnectionError == [raise |-> "ConnectionError"]

\* the ticks a live call may take
FetchTicks == {0, 1}

TimeArgs == {0, 1}
UnitArgs == {"minute", "s", "weeks"}

\* --------------------------------------------------------- python builtins
EmptyDict == [k \in {} |-> None]

dict_set(d, key, value) ==
    [k \in (DOMAIN d) \cup {key} |-> IF k = key THEN value ELSE d[k]]

\* json.dumps / json.load: the text of a file holding a JSON document
json_dumps(obj) == [text |-> obj]
json_load(fp) == fp.text

\* round() of a time.time() reading given in ticks of 1/TicksPerSecond s;
\* Python rounds a tie to the even integer
round(ticks) ==
    LET q == ticks \div TicksPerSecond
        r == ticks % TicksPerSecond
    IN  IF 2 * r < TicksPerSecond THEN q
        ELSE IF 2 * r > TicksPerSecond THEN q + 1
        ELSE IF q % 2 = 0 THEN q ELSE q + 1

\* ------------------------------------------------------------ FileDictMonad
NoFile == [exists |-> FALSE]

\* FileDictMonad.__init__ : the object and the disk after construction
FileDictMonad_disk(disk0, path) ==
    IF disk0[path] = NoFile
    THEN [disk0 EXCEPT ![path] = json_dumps(EmptyDict)]
    ELSE disk0

FileDictMonad_init(disk0, path) ==
    [state_file |-> path,
     state_json |-> json_load(FileDictMonad_disk(disk0, path)[path])]

\* a set that keeps the value a key already has
FileDictMonad_set_absent(self, key, value) ==
    IF key \in DOMAIN self.state_json THEN self
    ELSE [self EXCEPT !.state_json = dict_set(self.state_json, key, value)]

\* a set that replaces the whole mapping by the one entry
FileDictMonad_set_only(self, key, value) ==
    [self EXCEPT !.state_json = [k \in {key} |-> value]]

\* FileDictMonad.set : the object after the call
FileDictMonad_set(self, key, value) ==
    [self EXCEPT !.state_json = dict_set(self.state_json, key, value)]

\* a set that writes the mapping as it was before the assignment
FileDictMonad_set_disk_stale(d, self, key, value) ==
    [d EXCEPT ![self.state_file] = json_dumps(self.state_json)]

\* FileDictMonad.set : the disk after the call
FileDictMonad_set_disk(d, self, key, value) ==
    [d EXCEPT ![self.state_file] =
        json_dumps(FileDictMonad_set(self, key, value).state_json)]

\* FileDictMonad.get
FileDictMonad_get(self, key) ==
    IF key \in DOMAIN self.state_json THEN self.state_json[key] ELSE None

\* ------------------------------------------------------------------- state
VARIABLES
    state_STATE,    \* state.STATE : FileDictMonad
    state_CACHE,    \* state.CACHE : FileDictMonad
    disk,           \* path -> file content
    cache_hits,     \* Tba.cache_hits, per client
    cache_misses,   \* Tba.cache_misses, per client
    clock,          \* time.time() in ticks
    call,           \* the last handler run: its arguments, locals, result
    last_set,       \* history: key -> the value of the last state.CACHE.set,
                    \*          by this or an earlier process
    live_fetches,   \* history: requests.get calls, per client
    requests_ttl,   \* history: make_api_request calls that saw a TTL
    requests_off,   \* history: make_api_request calls that saw no TTL
    classified      \* history: per client, calls logged as hit / as miss

vars == <<state_STATE, state_CACHE, disk, cache_hits, cache_misses, clock, call,
          last_set, live_fetches, requests_ttl, requests_off, classified>>

NoCall == [kind |-> "none"]

\* the files an earlier process may have left behind
InitStateFiles ==
    {NoFile, json_dumps(EmptyDict),
     json_dumps([k \in {"cache_expiration_time"} |-> py_int(1)])}

InitCacheFiles ==
    {NoFile, json_dumps(EmptyDict),
     json_dumps([k \in {"status"} |-> [time |-> 0, response |-> [json |-> "a"]]])}

\* the process after its modules are loaded, before any call
Loaded ==
    /\ \E sf \in InitStateFiles, cf \in InitCacheFiles :
        LET disk0 == [p \in {STATE_FILE_PATH, CACHE_FILE_PATH} |->
                        IF p = STATE_FILE_PATH THEN sf ELSE cf]
            disk1 == FileDictMonad_disk(disk0, STATE_FILE_PATH)
            disk2 == FileDictMonad_disk(disk1, CACHE_FILE_PATH)
        IN  /\ state_STATE = FileDictMonad_init(disk0, STATE_FILE_PATH)
            /\ state_CACHE = FileDictMonad_init(disk1, CACHE_FILE_PATH)
            /\ disk = disk2
            /\ last_set = json_load(disk2[CACHE_FILE_PATH])
    /\ cache_hits = [t \in Tbas |-> 0]
    /\ cache_misses = [t \in Tbas |-> 0]
    /\ clock = 0
    /\ live_fetches = [t \in Tbas |-> 0]
    /\ requests_ttl = [t \in Tbas |-> 0]
    /\ requests_off = [t \in Tbas |-> 0]
    /\ classified = [t \in Tbas |-> [hit |-> 0, miss |-> 0]]

Init ==
    /\ Loaded
    /\ call = NoCall

\* ----------------------------------------------------------------- tba.py
\* a status test that accepts every response
res_is_good_always(res) == TRUE

\* res_is_good
res_is_good(res) == res.status_code = HTTP_OK

\* data = response.json() if res_is_good(response) else None, where
\* `outcome` is what requests.get did
response_data(outcome) ==
    IF outcome = ConnectionError THEN None
    ELSE IF res_is_good(outcome) THEN outcome.body ELSE None

\* a freshness test that expires an entry one second early
is_miss_ge(cache_item, now, cache_expiration_time) ==
    \/ cache_item = None
    \/ now - cache_item.time >= cache_expiration_time.int

\* the freshness test of make_api_request: True when the entry is to be
\* fetched again
is_miss(cache_item, now, cache_expiration_time) ==
    \/ cache_item = None
    \/ now - cache_item.time > cache_expiration_time.int

\* a miss that is not counted
count_miss_none(n) == n

\* self.cache_misses += 1
count_miss(n) == n + 1

\* a hit that is not counted
count_hit_none(n) == n

\* self.cache_hits += 1
count_hit(n) == n + 1

TotalRequests ==
    LET n(t) == requests_ttl[t] + requests_off[t]
    IN  n("TBA") + n("t")

\* a disabled-cache request that counts itself as a miss
request_disabled_counted(self, path, outcome, d) ==
    /\ live_fetches' = [live_fetches EXCEPT ![self] = @ + 1]
    /\ requests_off' = [requests_off EXCEPT ![self] = @ + 1]
    /\ cache_misses' = [cache_misses EXCEPT ![self] = @ + 1]
    /\ clock' = clock + d
    /\ call' = [kind |-> "disabled", self |-> self, path |-> path,
                cache_expiration_time |-> None, cache_item |-> None,
                now |-> round(clock), fetches |-> 1, response |-> outcome,
                stored |-> FALSE, raised |-> (outcome = ConnectionError),
                result |-> IF outcome = ConnectionError THEN None ELSE outcome]
    /\ UNCHANGED <<state_STATE, state_CACHE, disk, cache_hits,
                   last_set, requests_ttl, classified>>

\* make_api_request, caching disabled: always a live call; `outcome` is what
\* requests.get does (a response, or ConnectionError), `d` the ticks it takes
request_disabled(self, path, outcome, d) ==
    LET data == response_data(outcome) IN
    /\ live_fetches' = [live_fetches EXCEPT ![self] = @ + 1]
    /\ requests_off' = [requests_off EXCEPT ![self] = @ + 1]
    /\ clock' = clock + d
    /\ call' = [kind |-> "disabled", self |-> self, path |-> path,
                cache_expiration_time |-> None, cache_item |-> None,
                now |-> round(clock), fetches |-> 1, response |-> outcome,
                stored |-> FALSE, raised |-> (outcome = ConnectionError),
                result |-> IF outcome = ConnectionError THEN None ELSE outcome]
    /\ UNCHANGED <<state_STATE, state_CACHE, disk, cache_hits, cache_misses,
                   last_set, requests_ttl, classified>>

\* make_api_request, entry absent or expired: count the miss, call, store
\* the payload on success
request_miss(self, path, outcome, d) ==
    LET data == response_data(outcome)
        value == [time |-> round(clock + d), response |-> data]
        store == outcome # ConnectionError /\ data # None
    IN
    /\ cache_misses' = [cache_misses EXCEPT ![self] = count_miss(@)]
    /\ classified' = [classified EXCEPT ![self].miss = @ + 1]
    /\ live_fetches' = [live_fetches EXCEPT ![self] = @ + 1]
    /\ requests_ttl' = [requests_ttl EXCEPT ![self] = @ + 1]
    /\ clock' = clock + d
    /\ IF store
       THEN /\ state_CACHE' = FileDictMonad_set(state_CACHE, path, value)
            /\ disk' = FileDictMonad_set_disk(disk, state_CACHE, path, value)
            /\ last_set' = dict_set(last_set, path, value)
       ELSE UNCHANGED <<state_CACHE, disk, last_set>>
    /\ call' = [kind |-> "miss", self |-> self, path |-> path,
                cache_expiration_time |->
                    FileDictMonad_get(state_STATE, "cache_expiration_time"),
                cache_item |-> FileDictMonad_get(state_CACHE, path),
                now |-> round(clock), fetches |-> 1, response |-> outcome,
                stored |-> store, raised |-> (outcome = ConnectionError),
                result |-> data]
    /\ UNCHANGED <<state_STATE, cache_hits, requests_off>>

\* a hit counted on the class, seen by every client
request_hit_shared(self, path, outcome, d) ==
    LET cache_item == FileDictMonad_get(state_CACHE, path) IN
    /\ d = 0
    /\ outcome = ConnectionError
    /\ cache_hits' = [t \in Tbas |-> count_hit(cache_hits[t])]
    /\ classified' = [classified EXCEPT ![self].hit = @ + 1]
    /\ requests_ttl' = [requests_ttl EXCEPT ![self] = @ + 1]
    /\ call' = [kind |-> "hit", self |-> self, path |-> path,
                cache_expiration_time |->
                    FileDictMonad_get(state_STATE, "cache_expiration_time"),
                cache_item |-> cache_item,
                now |-> round(clock), fetches |-> 0, response |-> None,
                stored |-> FALSE, raised |-> FALSE,
                result |-> cache_item.response]
    /\ UNCHANGED <<state_STATE, state_CACHE, disk, cache_misses, clock,
                   last_set, live_fetches, requests_off>>

\* a hit that stamps the entry with the time of the read
request_hit_touch(self, path, outcome, d) ==
    LET cache_item == FileDictMonad_get(state_CACHE, path)
        value == [time |-> round(clock), response |-> cache_item.response]
    IN
    /\ d = 0
    /\ outcome = ConnectionError
    /\ cache_hits' = [cache_hits EXCEPT ![self] = count_hit(@)]
    /\ classified' = [classified EXCEPT ![self].hit = @ + 1]
    /\ requests_ttl' = [requests_ttl EXCEPT ![self] = @ + 1]
    /\ state_CACHE' = FileDictMonad_set(state_CACHE, path, value)
    /\ disk' = FileDictMonad_set_disk(disk, state_CACHE, path, value)
    /\ last_set' = dict_set(last_set, path, value)
    /\ call' = [kind |-> "hit", self |-> self, path |-> path,
                cache_expiration_time |->
                    FileDictMonad_get(state_STATE, "cache_expiration_time"),
                cache_item |-> cache_item,
                now |-> round(clock), fetches |-> 0, response |-> None,
                stored |-> FALSE, raised |-> FALSE,
                result |-> cache_item.response]
    /\ UNCHANGED <<state_STATE, cache_misses, clock,
                   live_fetches, requests_off>>

\* make_api_request, entry present and fresh: count the hit, no live call
request_hit(self, path, outcome, d) ==
    LET cache_item == FileDictMonad_get(state_CACHE, path) IN
    /\ d = 0
    /\ outcome = ConnectionError
    /\ cache_hits' = [cache_hits EXCEPT ![self] = count_hit(@)]
    /\ classified' = [classified EXCEPT ![self].hit = @ + 1]
    /\ requests_ttl' = [requests_ttl EXCEPT ![self] = @ + 1]
    /\ call' = [kind |-> "hit", self |-> self, path |-> path,
                cache_expiration_time |->
                    FileDictMonad_get(state_STATE, "cache_expiration_time"),
                cache_item |-> cache_item,
                now |-> round(clock), fetches |-> 0, response |-> None,
                stored |-> FALSE, raised |-> FALSE,
                result |-> cache_item.response]
    /\ UNCHANGED <<state_STATE, state_CACHE, disk, cache_misses, clock,
                   last_set, live_fetches, requests_off>>

\* Tba.make_api_request(self, path)
make_api_request(self, path, outcome, d) ==
    LET cache_expiration_time ==
            FileDictMonad_get(state_STATE, "cache_expiration_time")
        cache_item == FileDictMonad_get(state_CACHE, path)
    IN
    /\ TotalRequests < MaxRequests
    /\ clock + d <= MaxClock
    /\ IF cache_expiration_time = None
       THEN request_disabled(self, path, outcome, d)
       ELSE IF is_miss(cache_item, round(clock), cache_expiration_time)
       THEN request_miss(self, path, outcome, d)
       ELSE request_hit(self, path, outcome, d)

Request ==
    \E self \in Tbas, path \in Paths,
       outcome \in Responses \cup {ConnectionError}, d \in FetchTicks :
        make_api_request(self, path, outcome, d)

\* time passes between two handlers
Tick ==
    /\ clock < MaxClock
    /\ clock' = clock + 1
    /\ UNCHANGED <<state_STATE, state_CACHE, disk, cache_hits, cache_misses, call,
                   last_set, live_fetches, requests_ttl,
                   requests_off, classified>>

\* ----------------------------------------------------------------- bot.py
\* float(a) / float(b) for b # 0, kept exact as a fraction in lowest terms
RECURSIVE gcd(_, _)
gcd(a, b) == IF b = 0 THEN a ELSE gcd(b, a % b)

float_div(a, b) ==
    LET g == gcd(a, b) IN [num |-> a \div g, den |-> b \div g]

\* a rate taken over the misses alone
rate_divisor_misses(hits, misses) == misses

\* the operands of the division in get_cache_hit_rate
rate_dividend(hits, misses) == hits
rate_divisor(hits, misses) == misses + hits

\* Blue1.get_cache_hit_rate (the bot reads the counters of its own client)
get_cache_hit_rate ==
    LET hits == cache_hits[BotTba]
        misses == cache_misses[BotTba]
        a == rate_dividend(hits, misses)
        b == rate_divisor(hits, misses)
    IN
    /\ call' = IF b = 0
               THEN [kind |-> "rate", raised |-> TRUE,
                     exc |-> "ZeroDivisionError", rate |-> None]
               ELSE [kind |-> "rate", raised |-> FALSE,
                     exc |-> "", rate |-> float_div(a, b)]
    /\ UNCHANGED <<state_STATE, state_CACHE, disk, cache_hits, cache_misses,
                   clock, last_set, live_fetches, requests_ttl, requests_off,
                   classified>>

\* the seconds in one `unit` of set_cache_expiration_time, 0 when the unit
\* is not recognised
unit_seconds(unit) ==
    IF unit \in {"days", "day", "d"} THEN 24 * 60 * 60
    ELSE IF unit \in {"hours", "hour", "h"} THEN 60 * 60
    ELSE IF unit \in {"minutes", "minute", "m"} THEN 60
    ELSE IF unit \in {"seconds", "second", "s"} THEN 1
    ELSE 0

\* a handler that binds delta to 0 before the unit is looked at
set_cache_expiration_time_bound(priviledged, time, unit) ==
    LET delta == time * unit_seconds(unit) IN
    /\ call' = [kind |-> "set", priviledged |-> priviledged,
                delta |-> IF priviledged THEN py_int(delta) ELSE None,
                raised |-> FALSE]
    /\ IF priviledged
       THEN /\ state_STATE' = FileDictMonad_set(state_STATE,
                                    "cache_expiration_time", py_int(delta))
            /\ disk' = FileDictMonad_set_disk(disk, state_STATE,
                                    "cache_expiration_time", py_int(delta))
       ELSE UNCHANGED <<state_STATE, disk>>
    /\ UNCHANGED <<state_CACHE, cache_hits, cache_misses, clock, last_set,
                   live_fetches, requests_ttl, requests_off, classified>>

\* Blue1.set_cache_expiration_time(ctx, time, unit); an unrecognised unit
\* leaves `delta` unbound and the handler raises before STATE.set
set_cache_expiration_time(priviledged, time, unit) ==
    LET known == unit_seconds(unit) # 0
        delta == time * unit_seconds(unit)
    IN
    /\ call' = [kind |-> "set", priviledged |-> priviledged,
                delta |-> IF priviledged /\ known THEN py_int(delta) ELSE None,
                raised |-> (priviledged /\ ~known)]
    /\ IF priviledged /\ known
       THEN /\ state_STATE' = FileDictMonad_set(state_STATE,
                                    "cache_expiration_time", py_int(delta))
            /\ disk' = FileDictMonad_set_disk(disk, state_STATE,
                                    "cache_expiration_time", py_int(delta))
       ELSE UNCHANGED <<state_STATE, disk>>
    /\ UNCHANGED <<state_CACHE, cache_hits, cache_misses, clock, last_set,
                   live_fetches, requests_ttl, requests_off, classified>>

SetExpiration ==
    \E priviledged \in BOOLEAN, time \in TimeArgs, unit \in UnitArgs :
        set_cache_expiration_time(priviledged, time, unit)

Next == Request \/ Tick \/ get_cache_hit_rate \/ SetExpiration

Spec == Init /\ [][Next]_vars

\* ------------------------------------------- the store used on its own
\* keys and values a caller may hand to FileDictMonad.set / get
StoreKeys == Paths \cup {"scouting_sheet_id_2023cabl"}
StoreValues == Payloads \cup {None}

\* state.CACHE.set(key, value) called directly
StoreSet ==
    \E key \in StoreKeys, value \in StoreValues :
        /\ state_CACHE' = FileDictMonad_set(state_CACHE, key, value)
        /\ disk' = FileDictMonad_set_disk(disk, state_CACHE, key, value)
        /\ last_set' = dict_set(last_set, key, value)
        /\ call' = [kind |-> "store_set", key |-> key, value |-> value,
                    old |-> FileDictMonad_get(state_CACHE, key)]
        /\ UNCHANGED <<state_STATE, cache_hits, cache_misses, clock,
                       live_fetches, requests_ttl, requests_off, classified>>

\* state.CACHE.get(key) called directly
StoreGet ==
    \E key \in StoreKeys :
        /\ call' = [kind |-> "store_get", key |-> key,
                    result |-> FileDictMonad_get(state_CACHE, key)]
        /\ UNCHANGED <<state_STATE, state_CACHE, disk, cache_hits,
                       cache_misses, clock, last_set, live_fetches,
                       requests_ttl, requests_off, classified>>

\* the process ends between two handlers and a later process constructs
\* STATE and CACHE from the files (counters start again at 0)
StoreRestart ==
    /\ state_STATE' = FileDictMonad_init(disk, STATE_FILE_PATH)
    /\ state_CACHE' = FileDictMonad_init(disk, CACHE_FILE_PATH)
    /\ disk' = FileDictMonad_disk(
                   FileDictMonad_disk(disk, STATE_FILE_PATH), CACHE_FILE_PATH)
    /\ cache_hits' = [t \in Tbas |-> 0]
    /\ cache_misses' = [t \in Tbas |-> 0]
    /\ live_fetches' = [t \in Tbas |-> 0]
    /\ requests_ttl' = [t \in Tbas |-> 0]
    /\ requests_off' = [t \in Tbas |-> 0]
    /\ classified' = [t \in Tbas |-> [hit |-> 0, miss |-> 0]]
    /\ call' = [kind |-> "restart"]
    /\ UNCHANGED <<clock, last_set>>

StoreNext == StoreSet \/ StoreGet \/ StoreRestart

SpecStore == Init /\ [][StoreNext]_vars

\* ------------------------------------- the store, a set taken line by line
\* a file opened with 'w+' and not yet written
EmptyFile == [text |-> "", truncated |-> TRUE]

\* FileDictMonad.set up to the open: the assignment, then the truncation
set_open(key, value) ==
    /\ state_CACHE # None
    /\ call.kind # "set_opened"
    /\ state_CACHE' = FileDictMonad_set(state_CACHE, key, value)
    /\ disk' = [disk EXCEPT ![state_CACHE.state_file] = EmptyFile]
    /\ call' = [kind |-> "set_opened", key |-> key, value |-> value,
                before |-> disk[state_CACHE.state_file]]
    /\ UNCHANGED <<state_STATE, cache_hits, cache_misses, clock, last_set,
                   live_fetches, requests_ttl, requests_off, classified>>

SetOpen ==
    \E key \in StoreKeys, value \in StoreValues : set_open(key, value)

\* FileDictMonad.set from the write to the return
SetWrite ==
    /\ call.kind = "set_opened"
    /\ disk' = FileDictMonad_set_disk(disk, state_CACHE, call.key, call.value)
    /\ last_set' = dict_set(last_set, call.key, call.value)
    /\ call' = [kind |-> "store_set", key |-> call.key, value |-> call.value,
                old |-> None]
    /\ UNCHANGED <<state_STATE, state_CACHE, cache_hits, cache_misses, clock,
                   live_fetches, requests_ttl, requests_off, classified>>

\* the process dies, at any line, and a later process constructs CACHE from
\* the file: json.load raises on a file that holds no document
CrashRestart ==
    /\ IF disk[CACHE_FILE_PATH] = EmptyFile
       THEN /\ state_CACHE' = None
            /\ call' = [kind |-> "init_failed", exc |-> "JSONDecodeError"]
       ELSE /\ state_CACHE' = FileDictMonad_init(disk, CACHE_FILE_PATH)
            /\ call' = [kind |-> "restart"]
    /\ UNCHANGED <<state_STATE, disk, cache_hits, cache_misses, clock,
                   last_set, live_fetches, requests_ttl, requests_off,
                   classified>>

CrashNext == SetOpen \/ SetWrite \/ CrashRestart

SpecCrash == Init /\ [][CrashNext]_vars

\* ------------------------------------------- two processes, one directory
\* the program run twice from one directory: each process constructs its own
\* state.CACHE from the same file and runs one handler at a time; in this
\* specification state_CACHE, the counters and call are held per process
Processes == {1, 2}

InitShared ==
    /\ \E cf \in InitCacheFiles :
        LET disk0 == [p \in {STATE_FILE_PATH, CACHE_FILE_PATH} |->
                        IF p = STATE_FILE_PATH
                        THEN json_dumps([k \in {"cache_expiration_time"} |->
                                            py_int(1)])
                        ELSE cf]
            disk1 == FileDictMonad_disk(disk0, CACHE_FILE_PATH)
        IN  /\ state_STATE = FileDictMonad_init(disk0, STATE_FILE_PATH)
            /\ state_CACHE = [p \in Processes |->
                                FileDictMonad_init(disk1, CACHE_FILE_PATH)]
            /\ disk = disk1
            /\ last_set = json_load(disk1[CACHE_FILE_PATH])
    /\ cache_hits = [p \in Processes |-> 0]
    /\ cache_misses = [p \in Processes |-> 0]
    /\ clock = 0
    /\ call = [p \in Processes |-> NoCall]
    /\ live_fetches = [p \in Processes |-> 0]
    /\ requests_ttl = [p \in Processes |-> 0]
    /\ requests_off = [p \in Processes |-> 0]
    /\ classified = [p \in Processes |-> [hit |-> 0, miss |-> 0]]

\* the calls of other processes that are inside requests.get for `path`
InFlight(p, path) ==
    {q \in Processes \ {p} :
        call[q].kind = "fetching" /\ call[q].path = path}

\* make_api_request in process p up to requests.get: the cache lookup, and
\* for a hit the whole call
request_start(p, path) ==
    LET cache_expiration_time ==
            FileDictMonad_get(state_STATE, "cache_expiration_time")
        cache_item == FileDictMonad_get(state_CACHE[p], path)
    IN
    /\ call[p].kind # "fetching"
    /\ requests_ttl[1] + requests_ttl[2] < MaxRequests
    /\ requests_ttl' = [requests_ttl EXCEPT ![p] = @ + 1]
    /\ IF is_miss(cache_item, round(clock), cache_expiration_time)
       THEN /\ cache_misses' = [cache_misses EXCEPT ![p] = count_miss(@)]
            /\ call' = [call EXCEPT ![p] =
                    [kind |-> "fetching", path |-> path,
                     cache_item |-> cache_item,
                     in_flight |-> InFlight(p, path)]]
            /\ UNCHANGED cache_hits
       ELSE /\ cache_hits' = [cache_hits EXCEPT ![p] = count_hit(@)]
            /\ call' = [call EXCEPT ![p] =
                    [kind |-> "hit", path |-> path,
                     cache_item |-> cache_item,
                     result |-> cache_item.response]]
            /\ UNCHANGED cache_misses
    /\ UNCHANGED <<state_STATE, state_CACHE, disk, clock, last_set,
                   live_fetches, requests_off, classified>>

Start == \E p \in Processes, path \in Paths : request_start(p, path)

\* make_api_request in process p from the return of requests.get
request_finish(p, outcome) ==
    LET path == call[p].path
        data == response_data(outcome)
        value == [time |-> round(clock), response |-> data]
        store == outcome # ConnectionError /\ data # None
    IN
    /\ call[p].kind = "fetching"
    /\ live_fetches' = [live_fetches EXCEPT ![p] = @ + 1]
    /\ IF store
       THEN /\ state_CACHE' = [state_CACHE EXCEPT ![p] =
                                FileDictMonad_set(@, path, value)]
            /\ disk' = FileDictMonad_set_disk(disk, state_CACHE[p], path, value)
            /\ last_set' = dict_set(last_set, path, value)
       ELSE UNCHANGED <<state_CACHE, disk, last_set>>
    /\ call' = [call EXCEPT ![p] =
            [kind |-> "miss", path |-> path,
             cache_item |-> call[p].cache_item,
             in_flight |-> call[p].in_flight,
             response |-> outcome, stored |-> store, value |-> value,
             raised |-> (outcome = ConnectionError), result |-> data]]
    /\ UNCHANGED <<state_STATE, cache_hits, cache_misses, clock,
                   requests_ttl, requests_off, classified>>

Finish ==
    \E p \in Processes, outcome \in Responses \cup {ConnectionError} :
        request_finish(p, outcome)

SharedNext == Start \/ Finish \/ Tick

SpecShared == InitShared /\ [][SharedNext]_vars

\* ----------------------------------------------------------------- frc.py
\* every variable but `call`: what applying a function of frc.py leaves alone
rest == <<state_STATE, state_CACHE, disk, cache_hits, cache_misses, clock,
          last_set, live_fetches, requests_ttl, requests_off, classified>>

\* a team key 'frc<number>' as its characters
TeamKey(digit) == <<"f", "r", "c", digit>>
DigitValue == [c \in {"0", "1", "2", "3", "4", "5", "6", "7", "8", "9"} |->
    CASE c = "0" -> 0 [] c = "1" -> 1 [] c = "2" -> 2 [] c = "3" -> 3
      [] c = "4" -> 4 [] c = "5" -> 5 [] c = "6" -> 6 [] c = "7" -> 7
      [] c = "8" -> 8 [] c = "9" -> 9]

\* str.removeprefix
removeprefix(str, prefix) ==
    IF Len(str) >= Len(prefix) /\ SubSeq(str, 1, Len(prefix)) = prefix
    THEN SubSeq(str, Len(prefix) + 1, Len(str))
    ELSE str

\* int() of a string of decimal digits
RECURSIVE int_of_digits(_)
int_of_digits(str) ==
    IF Len(str) = 0 THEN 0
    ELSE 10 * int_of_digits(SubSeq(str, 1, Len(str) - 1))
            + DigitValue[str[Len(str)]]

\* team_number_from_id
team_number_from_id(id) == int_of_digits(removeprefix(id, <<"f", "r", "c">>))

\* the elements of a list
Elems(list) == {list[i] : i \in DOMAIN list}

\* a test that takes one negative score for the sentinel
scores_absent_either(red, blue) == red < 0 \/ blue < 0

\* Match.__init__: the test that sets both scores to None
scores_absent(red, blue) == red < 0 /\ blue < 0

\* an award that is 0 for red when there is no breakdown
rp_award_red_zero(breakdown, alliance) ==
    IF breakdown # None THEN py_int(breakdown[alliance].rp)
    ELSE IF alliance = "red" THEN py_int(0)
    ELSE None

\* Match.__init__: int(json['score_breakdown'][alliance]['rp']) inside
\* try / except TypeError; a null breakdown raises at the red award and
\* leaves both at the class default None
rp_award(breakdown, alliance) ==
    IF breakdown = None THEN None ELSE py_int(breakdown[alliance].rp)

\* Match.__init__; a score or an RP award that may be None is held as
\* py_int(n) or None
Match_init(json) ==
    LET red == json.alliances.red.score
        blue == json.alliances.blue.score
        absent == scores_absent(red, blue)
        breakdown == json.score_breakdown
    IN  [id |-> json.key,
         event_id |-> json.event_key,
         comp_level |-> json.comp_level,
         set_number |-> json.set_number,
         match_number |-> json.match_number,
         red_alliance_teams |->
            [i \in DOMAIN json.alliances.red.team_keys |->
                team_number_from_id(json.alliances.red.team_keys[i])],
         blue_alliance_teams |->
            [i \in DOMAIN json.alliances.blue.team_keys |->
                team_number_from_id(json.alliances.blue.team_keys[i])],
         red_alliance_score |-> IF absent THEN None ELSE py_int(red),
         blue_alliance_score |-> IF absent THEN None ELSE py_int(blue),
         red_alliance_rp_awarded |-> rp_award(breakdown, "red"),
         blue_alliance_rp_awarded |-> rp_award(breakdown, "blue"),
         winning_alliance |-> json.winning_alliance,
         videos |-> json.videos]

\* Match.was_played
was_played(self) ==
    self.blue_alliance_score # None /\ self.red_alliance_score # None

\* a lookup that answers with the other alliance's score
get_team_score_swapped(self, team_number) ==
    IF team_number \in Elems(self.red_alliance_teams)
    THEN self.blue_alliance_score
    ELSE IF team_number \in Elems(self.blue_alliance_teams)
    THEN self.red_alliance_score
    ELSE None

\* Match.get_team_score
get_team_score(self, team_number) ==
    IF team_number \in Elems(self.red_alliance_teams)
    THEN self.red_alliance_score
    ELSE IF team_number \in Elems(self.blue_alliance_teams)
    THEN self.blue_alliance_score
    ELSE None

\* Match.overall_number
overall_number(self) == self.set_number * self.match_number

\* the records of one event's matches the API may send
EventKey == "2023cabl"
CompLevels == {"qm", "sf", "f"}
SetNumbers == {1, 2}
MatchNumbers == {1, 2}
Scores == {-1, 0, 2}
RedTeamKeys ==
    {<<TeamKey("1"), TeamKey("2"), TeamKey("3")>>,
     <<TeamKey("1"), TeamKey("2")>>}
BlueTeamKeys ==
    {<<TeamKey("4"), TeamKey("5"), TeamKey("6")>>,
     <<TeamKey("4"), TeamKey("5")>>}
Breakdowns == {None, [red |-> [rp |-> 2], blue |-> [rp |-> 0]]}
TeamNumbers == 1..7

winner(red, blue) ==
    IF red > blue THEN "red" ELSE IF blue > red THEN "blue" ELSE ""

MatchRecord(level, set, number, red_keys, blue_keys, red, blue, breakdown) ==
    [key |-> <<EventKey, level, set, number>>,
     event_key |-> EventKey,
     comp_level |-> level,
     set_number |-> set,
     match_number |-> number,
     alliances |-> [red |-> [team_keys |-> red_keys, score |-> red],
                    blue |-> [team_keys |-> blue_keys, score |-> blue]],
     score_breakdown |-> breakdown,
     winning_alliance |-> winner(red, blue),
     videos |-> <<>>]

\* records that differ in alliances, scores and breakdown
MatchRecords ==
    {MatchRecord("qm", 1, n, rk, bk, r, b, bd) :
        n \in {1, 2}, rk \in RedTeamKeys, bk \in BlueTeamKeys,
        r \in Scores, b \in Scores, bd \in Breakdowns}

\* the arguments of one call of a function of frc.py
MatchArgs ==
    {[kind |-> "args", fn |-> "Match", json |-> json] : json \in MatchRecords}

TeamScoreArgs ==
    {[kind |-> "args", fn |-> "get_team_score", json |-> json,
      team_number |-> n] : json \in MatchRecords, n \in TeamNumbers}

InitMatch ==
    /\ Loaded
    /\ call \in MatchArgs \cup TeamScoreArgs

\* frc.Match(json)
Construct ==
    /\ call.kind = "args"
    /\ call.fn = "Match"
    /\ call' = [kind |-> "Match", json |-> call.json,
                match |-> Match_init(call.json)]
    /\ UNCHANGED rest

\* frc.Match(json).get_team_score(team_number)
TeamScore ==
    /\ call.kind = "args"
    /\ call.fn = "get_team_score"
    /\ call' = [kind |-> "get_team_score", json |-> call.json,
                match |-> Match_init(call.json),
                team_number |-> call.team_number,
                result |-> get_team_score(Match_init(call.json),
                                          call.team_number)]
    /\ UNCHANGED rest

MatchNext == Construct \/ TeamScore

SpecMatch == InitMatch /\ [][MatchNext]_vars

\* a comparison that knows only the final level
comp_level_cmp_finals_only(x, y) ==
    IF x = y THEN py_int(0)
    ELSE IF x = "f" THEN py_int(1)
    ELSE IF y = "f" THEN py_int(-1)
    ELSE py_int(0)

\* comp_level_cmp; falling off the last elif returns None
comp_level_cmp(x, y) ==
    IF x = y THEN py_int(0)
    ELSE IF x = "f" THEN py_int(1)
    ELSE IF y = "f" THEN py_int(-1)
    ELSE IF x = "sf" THEN py_int(1)
    ELSE IF y = "sf" THEN py_int(-1)
    ELSE None

\* a comparison without the was_played tests
match_cmp_scheduled(x, y) ==
    LET level_cmp == comp_level_cmp(x.comp_level, y.comp_level)
    IN  IF level_cmp # py_int(0) THEN level_cmp
        ELSE py_int(overall_number(x) - overall_number(y))

\* match_cmp
match_cmp(x, y) ==
    IF ~was_played(x) THEN py_int(-1)
    ELSE IF ~was_played(y) THEN py_int(1)
    ELSE LET level_cmp == comp_level_cmp(x.comp_level, y.comp_level)
         IN  IF level_cmp # py_int(0) THEN level_cmp
             ELSE py_int(overall_number(x) - overall_number(y))

\* functools.cmp_to_key: K.__lt__
ISLT(x, y) == match_cmp(x, y).int < 0

\* sorted() on a list shorter than 64 (CPython listobject.c): the leading
\* run is counted, reversed if it descends, and the other elements are
\* inserted one by one by binary search
RECURSIVE run_extend(_, _, _)
run_extend(a, descending, n) ==
    IF n = Len(a) THEN n
    ELSE IF ISLT(a[n + 1], a[n]) = descending
    THEN run_extend(a, descending, n + 1)
    ELSE n

count_run(a) ==
    IF Len(a) < 2 THEN [n |-> Len(a), descending |-> FALSE]
    ELSE LET descending == ISLT(a[2], a[1])
         IN  [n |-> run_extend(a, descending, 2), descending |-> descending]

reverse_slice(a, n) ==
    [i \in 1..Len(a) |-> IF i <= n THEN a[n + 1 - i] ELSE a[i]]

RECURSIVE bisect(_, _, _, _)
bisect(a, pivot, l, r) ==
    LET p == l + ((r - l) \div 2)
        less == ISLT(pivot, a[p])
        l2 == IF less THEN l ELSE p + 1
        r2 == IF less THEN p ELSE r
    IN  IF l2 < r2 THEN bisect(a, pivot, l2, r2) ELSE l2

insert(a, start, l) ==
    [i \in 1..Len(a) |->
        IF i < l THEN a[i]
        ELSE IF i = l THEN a[start]
        ELSE IF i <= start THEN a[i - 1]
        ELSE a[i]]

RECURSIVE binarysort(_, _)
binarysort(a, start) ==
    IF start > Len(a) THEN a
    ELSE binarysort(insert(a, start, bisect(a, a[start], 1, start)),
                    start + 1)

\* an order of arrival
unsorted(matches) == matches

\* sorted(matches, key=cmp_to_key(frc.match_cmp))
sorted(matches) ==
    IF Len(matches) < 2 THEN matches
    ELSE LET run == count_run(matches)
             a == IF run.descending THEN reverse_slice(matches, run.n)
                  ELSE matches
         IN  binarysort(a, run.n + 1)

\* the longest list of matches sorted
MaxMatches == 3

\* a match of the event by level, set, number and whether it was played
EventMatch(level, set, number, played) ==
    Match_init(MatchRecord(level, set, number,
        <<TeamKey("1"), TeamKey("2"), TeamKey("3")>>,
        <<TeamKey("4"), TeamKey("5"), TeamKey("6")>>,
        IF played THEN 2 ELSE -1, IF played THEN 0 ELSE -1, None))

EventMatches ==
    {EventMatch(level, set, number, played) :
        level \in CompLevels, set \in SetNumbers, number \in MatchNumbers,
        played \in BOOLEAN}

\* the matches handed to sorted(): set 1 match 2 and set 2 match 1 of a
\* level have the same overall number
SortedMatches == {m \in EventMatches : overall_number(m) <= 2}

CmpArgs ==
    {[kind |-> "args", fn |-> "match_cmp", x |-> x, y |-> y, z |-> z] :
        x \in EventMatches, y \in EventMatches, z \in EventMatches}

SortedArgs ==
    {[kind |-> "args", fn |-> "sorted", matches |-> matches] :
        matches \in UNION {[1..n -> SortedMatches] : n \in 0..MaxMatches}}

LevelArgs ==
    {[kind |-> "args", fn |-> "comp_level_cmp", x |-> x, y |-> y] :
        x \in CompLevels, y \in CompLevels}

\* a process started without earlier files, about to compare or to sort
InitOrder ==
    /\ Loaded
    /\ state_STATE.state_json = EmptyDict
    /\ state_CACHE.state_json = EmptyDict
    /\ call \in CmpArgs \cup SortedArgs \cup LevelArgs

\* match_cmp on the pairs of three matches
Compare ==
    /\ call.kind = "args"
    /\ call.fn = "match_cmp"
    /\ call' = [kind |-> "match_cmp", x |-> call.x, y |-> call.y, z |-> call.z,
                xy |-> match_cmp(call.x, call.y),
                yx |-> match_cmp(call.y, call.x),
                yz |-> match_cmp(call.y, call.z),
                xz |-> match_cmp(call.x, call.z)]
    /\ UNCHANGED rest

\* Tba.get_event_matches: the sort of the constructed matches, and the sort
\* of its result
Sort ==
    /\ call.kind = "args"
    /\ call.fn = "sorted"
    /\ call' = [kind |-> "sorted", matches |-> call.matches,
                result |-> sorted(call.matches),
                again |-> sorted(sorted(call.matches))]
    /\ UNCHANGED rest

\* comp_level_cmp on a pair of levels, both ways
CompareLevels ==
    /\ call.kind = "args"
    /\ call.fn = "comp_level_cmp"
    /\ call' = [kind |-> "comp_level_cmp", x |-> call.x, y |-> call.y,
                xy |-> comp_level_cmp(call.x, call.y),
                yx |-> comp_level_cmp(call.y, call.x)]
    /\ UNCHANGED rest

OrderNext == Compare \/ Sort \/ CompareLevels

SpecOrder == InitOrder /\ [][OrderNext]_vars

\* the breakdown and the alliances of match records
Breakdown(red_rp, blue_rp) == [red |-> [rp |-> red_rp], blue |-> [rp |-> blue_rp]]
AllianceA == [red |-> <<TeamKey("1"), TeamKey("2"), TeamKey("3")>>,
              blue |-> <<TeamKey("4"), TeamKey("5"), TeamKey("6")>>]
AllianceB == [red |-> <<TeamKey("1"), TeamKey("4"), TeamKey("5")>>,
              blue |-> <<TeamKey("2"), TeamKey("3"), TeamKey("6")>>]
AllianceOfTwo == [red |-> <<TeamKey("1"), TeamKey("2")>>,
                  blue |-> <<TeamKey("4"), TeamKey("5")>>]

\* ------------------------------------------- frc.py: records with gaps
\* a record without one of its keys
Without(json, key) == [k \in DOMAIN json \ {key} |-> json[k]]

\* json[key] for a key the dict lacks
KeyError(key) == [raise |-> "KeyError", key |-> key]

\* the places of the keys a constructor reads that the record lacks
missing(json, keys) == {i \in DOMAIN keys : keys[i] \notin DOMAIN json}

first_missing(json, keys) ==
    keys[CHOOSE i \in missing(json, keys) :
            \A j \in missing(json, keys) : i <= j]

\* json.get(key)
dict_get(json, key) == IF key \in DOMAIN json THEN json[key] ELSE "None"

\* the keys Team.__init__ reads, in its order
TeamKeys ==
    <<"key", "name", "nickname", "school_name", "website", "country",
      "state_prov", "city", "team_number", "rookie_year">>

\* a constructor that reads every key with json.get
Team_init_get(json) ==
    [entity |-> "Team",
     id |-> dict_get(json, "key"), name |-> dict_get(json, "name"),
     nickname |-> dict_get(json, "nickname"),
     school_name |-> dict_get(json, "school_name"),
     website |-> dict_get(json, "website"),
     country |-> dict_get(json, "country"),
     state_or_province |-> dict_get(json, "state_prov"),
     city |-> dict_get(json, "city"),
     team_number |-> dict_get(json, "team_number"),
     rookie_year |-> dict_get(json, "rookie_year")]

\* Team.__init__
Team_init(json) ==
    IF missing(json, TeamKeys) # {}
    THEN KeyError(first_missing(json, TeamKeys))
    ELSE [entity |-> "Team",
          id |-> json.key, name |-> json.name, nickname |-> json.nickname,
          school_name |-> json.school_name, website |-> json.website,
          country |-> json.country, state_or_province |-> json.state_prov,
          city |-> json.city, team_number |-> json.team_number,
          rookie_year |-> json.rookie_year]

\* the keys Event.__init__ reads, in its order
EventKeys ==
    <<"key", "name", "event_code", "event_type_string", "website",
      "playoff_type_string", "country", "state_prov", "city", "address",
      "location_name", "gmaps_url", "start_date", "end_date", "year">>

\* Event.__init__
Event_init(json) ==
    IF missing(json, EventKeys) # {}
    THEN KeyError(first_missing(json, EventKeys))
    ELSE [entity |-> "Event",
          id |-> json.key, name |-> json.name, event_code |-> json.event_code,
          event_type |-> json.event_type_string, website |-> json.website,
          playoff_type |-> json.playoff_type_string,
          country |-> json.country, state_or_province |-> json.state_prov,
          city |-> json.city, address |-> json.address,
          location_name |-> json.location_name, gmaps_url |-> json.gmaps_url,
          start_date |-> json.start_date, end_date |-> json.end_date,
          year |-> json.year]

\* the keys Match.__init__ reads at the top of the record, in its order
MatchKeys ==
    <<"key", "event_key", "comp_level", "set_number", "match_number",
      "alliances", "score_breakdown", "winning_alliance", "videos">>

\* frc.Match(json): the Match, or the KeyError of the first key not found
frc_Match(json) ==
    IF missing(json, MatchKeys) # {}
    THEN KeyError(first_missing(json, MatchKeys))
    ELSE [entity |-> "Match", match |-> Match_init(json)]

\* the documents of the API
TeamRecord(number, nickname, year) ==
    [key |-> TeamKey(number), name |-> "name", nickname |-> nickname,
     school_name |-> "school", website |-> "website", country |-> "USA",
     state_prov |-> "CA", city |-> "city", team_number |-> number,
     rookie_year |-> year]

EventRecord(code, year) ==
    [key |-> <<year, code>>, name |-> "name", event_code |-> code,
     event_type_string |-> "Regional", website |-> "website",
     playoff_type_string |-> "Double Elimination", country |-> "USA",
     state_prov |-> "CA", city |-> "city", address |-> "address",
     location_name |-> "location", gmaps_url |-> "url",
     start_date |-> "2023-03-01", end_date |-> "2023-03-04", year |-> year]

\* whole documents, and documents with one key gone
WithGaps(records, keys) ==
    records \cup {Without(json, keys[i]) : json \in records, i \in DOMAIN keys}

TeamRecords ==
    WithGaps({TeamRecord("1", "one", 1997), TeamRecord("4", "four", 2023)},
             TeamKeys)

EventDocuments ==
    WithGaps({EventRecord("cabl", 2023), EventRecord("casd", 2022)}, EventKeys)

MatchDocuments ==
    WithGaps({MatchRecord("qm", 1, 1, AllianceA.red, AllianceA.blue, 2, 0,
                          Breakdown(2, 0)),
              MatchRecord("qm", 1, 2, AllianceA.red, AllianceA.blue, 2, 0,
                          None),
              MatchRecord("f", 1, 1, AllianceA.red, AllianceA.blue, -1, -1,
                          None)},
             MatchKeys)

\* the arguments of a lookup and what make_api_request gave it
LookupArgs ==
    {[kind |-> "args", fn |-> "get_team", data |-> [json |-> d]] :
        d \in TeamRecords}
    \cup {[kind |-> "args", fn |-> "get_event", data |-> [json |-> d]] :
        d \in EventDocuments}
    \cup {[kind |-> "args", fn |-> "get_match", data |-> [json |-> d]] :
        d \in MatchDocuments}
    \cup {[kind |-> "args", fn |-> fn, data |-> None] :
        fn \in {"get_team", "get_event", "get_match"}}

InitLookup ==
    /\ Loaded
    /\ state_STATE.state_json = EmptyDict
    /\ state_CACHE.state_json = EmptyDict
    /\ call \in LookupArgs

\* Tba.get_team
get_team ==
    /\ call.kind = "args"
    /\ call.fn = "get_team"
    /\ call' = [kind |-> "get_team", data |-> call.data,
                result |-> IF call.data = None THEN None
                           ELSE Team_init(call.data.json)]
    /\ UNCHANGED rest

\* Tba.get_event
get_event ==
    /\ call.kind = "args"
    /\ call.fn = "get_event"
    /\ call' = [kind |-> "get_event", data |-> call.data,
                result |-> IF call.data = None THEN None
                           ELSE Event_init(call.data.json)]
    /\ UNCHANGED rest

\* Tba.get_match
get_match ==
    /\ call.kind = "args"
    /\ call.fn = "get_match"
    /\ call' = [kind |-> "get_match", data |-> call.data,
                result |-> IF call.data = None THEN None
                           ELSE frc_Match(call.data.json)]
    /\ UNCHANGED rest

LookupNext == get_team \/ get_event \/ get_match

SpecLookup == InitLookup /\ [][LookupNext]_vars

\* ------------------------------------------------- bot.py: get_team_rank
\* the longest match list of an event replayed
MaxEventMatches == 3

\* float(rp) / float(matches) if matches != 0 else 0, as an exact fraction
rp_average(rank) ==
    IF rank.matches # 0 THEN float_div(rank.rp, rank.matches)
    ELSE [num |-> 0, den |-> 1]

\* a comparison that counts a tie as greater
average_ge(a, b) == a.num * b.den >= b.num * a.den

\* team_r > rp_avg_v_time[-1]
average_gt(a, b) == a.num * b.den > b.num * a.den

\* an addition of one point a match
add_rp_one(rp, rp_awarded) == py_int(rp + 1)

\* an addition that takes a missing award for 0
add_rp_or_zero(rp, rp_awarded) ==
    IF rp_awarded = None THEN py_int(rp) ELSE py_int(rp + rp_awarded.int)

\* team_ranks[team][0] + match.<alliance>_rp_awarded; int + None raises
add_rp(rp, rp_awarded) ==
    IF rp_awarded = None THEN [raise |-> "TypeError"]
    ELSE py_int(rp + rp_awarded.int)

\* one of the two loops over an alliance, from its i-th team on; team_ranks
\* is the OrderedDict as the list of its items; team_ranks[team] raises
\* KeyError for a team that is not of the event
RECURSIVE fold_alliance(_, _, _, _)
fold_alliance(team_ranks, teams, rp_awarded, i) ==
    IF i > Len(teams) THEN [team_ranks |-> team_ranks, raised |-> None]
    ELSE
        LET found == {j \in DOMAIN team_ranks : team_ranks[j].team = teams[i]}
            j == CHOOSE j \in found : TRUE
            rp == add_rp(team_ranks[j].rp, rp_awarded)
        IN  IF found = {}
            THEN [team_ranks |-> team_ranks, raised |-> [raise |-> "KeyError"]]
            ELSE IF rp = [raise |-> "TypeError"]
            THEN [team_ranks |-> team_ranks, raised |-> rp]
            ELSE fold_alliance(
                    [team_ranks EXCEPT ![j] =
                        [team |-> @.team, rp |-> rp.int,
                         matches |-> @.matches + 1]],
                    teams, rp_awarded, i + 1)

\* sorted(team_ranks.items(), key=average): the sort is stable, so an item
\* goes behind every item placed before it whose average is not greater
RECURSIVE sorted_items(_, _)
sorted_items(done, items) ==
    IF items = <<>> THEN done
    ELSE
        LET item == Head(items)
            behind == {j \in DOMAIN done :
                        ~average_gt(rp_average(done[j]), rp_average(item))}
            l == IF behind = {} THEN 0
                 ELSE CHOOSE j \in behind : \A k \in behind : k <= j
        IN  sorted_items(SubSeq(done, 1, l) \o <<item>>
                            \o SubSeq(done, l + 1, Len(done)),
                         Tail(items))

\* the rank loop: 1 plus the items whose average is greater
curr_rank(team_ranks, average) ==
    1 + Cardinality({j \in DOMAIN team_ranks :
                        average_gt(rp_average(team_ranks[j]), average)})

\* a loop that takes every level
is_skipped_never(match) == FALSE

\* if match.comp_level != 'qm': continue
is_skipped(match) == match.comp_level # "qm"

\* a start that keeps the table of the run before
replay_begin_kept(f) ==
    LET matches_list == sorted([i \in DOMAIN f.records |->
                                    Match_init(f.records[i])])
    IN  [kind |-> "get_team_rank", run |-> f.run, first |-> f.first,
         team_number |-> f.team_number, teams |-> f.teams,
         records |-> f.records,
         matches |-> sorted(matches_list), i |-> 1,
         team_ranks |-> IF f.first = None
                        THEN [j \in DOMAIN f.teams |->
                                [team |-> f.teams[j], rp |-> 0, matches |-> 0]]
                        ELSE f.first.team_ranks,
         rp_avg_v_time |-> <<>>, rank_v_time |-> <<>>,
         folded |-> <<>>, raised |-> None, plotted |-> FALSE]

\* get_team_rank up to the loop; f holds team_number, teams and the
\* records of the event's matches
replay_begin(f) ==
    LET matches_list == sorted([i \in DOMAIN f.records |->
                                    Match_init(f.records[i])])
    IN  [kind |-> "get_team_rank", run |-> f.run, first |-> f.first,
         team_number |-> f.team_number, teams |-> f.teams,
         records |-> f.records,
         matches |-> sorted(matches_list), i |-> 1,
         team_ranks |-> [j \in DOMAIN f.teams |->
                            [team |-> f.teams[j], rp |-> 0, matches |-> 0]],
         rp_avg_v_time |-> <<>>, rank_v_time |-> <<>>,
         folded |-> <<>>, raised |-> None, plotted |-> FALSE]

\* one pass of `for match in matches`
replay_step(f) ==
    LET match == f.matches[f.i]
        red == fold_alliance(f.team_ranks, match.red_alliance_teams,
                             match.red_alliance_rp_awarded, 1)
        blue == fold_alliance(red.team_ranks, match.blue_alliance_teams,
                              match.blue_alliance_rp_awarded, 1)
        team_ranks == sorted_items(<<>>, blue.team_ranks)
        rank == CHOOSE r \in Elems(team_ranks) : r.team = f.team_number
    IN  IF is_skipped(match) THEN [f EXCEPT !.i = @ + 1]
        ELSE IF red.raised # None
        THEN [f EXCEPT !.team_ranks = red.team_ranks, !.raised = red.raised]
        ELSE IF blue.raised # None
        THEN [f EXCEPT !.team_ranks = blue.team_ranks, !.raised = blue.raised]
        ELSE IF \A r \in Elems(team_ranks) : r.team # f.team_number
        THEN [f EXCEPT !.team_ranks = team_ranks,
                       !.raised = [raise |-> "KeyError"]]
        ELSE [f EXCEPT !.i = @ + 1,
                       !.team_ranks = team_ranks,
                       !.rp_avg_v_time = Append(@, rp_average(rank)),
                       !.rank_v_time =
                            Append(@, curr_rank(team_ranks, rp_average(rank))),
                       !.folded = Append(@, match)]

\* the loop has ended, by exhaustion or by an exception
replay_over(f) == f.raised # None \/ f.i > Len(f.matches)

\* what a run leaves: the two lists, the table, the exception if any
outcome(f) ==
    [rank_v_time |-> f.rank_v_time, rp_avg_v_time |-> f.rp_avg_v_time,
     team_ranks |-> f.team_ranks, raised |-> f.raised]

\* the whole of get_team_rank on arguments
RECURSIVE replay_loop(_)
replay_loop(f) == IF replay_over(f) THEN f ELSE replay_loop(replay_step(f))

\* the match records of the event
EventRecords ==
    {MatchRecord("qm", 1, 1, AllianceA.red, AllianceA.blue, 2, 0,
                 Breakdown(2, 0)),
     MatchRecord("qm", 1, 2, AllianceB.red, AllianceB.blue, 0, 2,
                 Breakdown(1, 3)),
     MatchRecord("qm", 1, 3, AllianceA.red, AllianceA.blue, 2, 2,
                 Breakdown(1, 1)),
     \* played, the breakdown not yet published
     MatchRecord("qm", 1, 4, AllianceB.red, AllianceB.blue, 2, 0, None),
     \* not yet played
     MatchRecord("qm", 1, 5, AllianceA.red, AllianceA.blue, -1, -1, None),
     MatchRecord("sf", 1, 1, AllianceA.red, AllianceA.blue, 2, 0,
                 Breakdown(0, 0)),
     MatchRecord("f", 1, 1, AllianceA.red, AllianceA.blue, -1, -1, None),
     \* an event of four teams
     MatchRecord("qm", 1, 1, AllianceOfTwo.red, AllianceOfTwo.blue, 2, 0,
                 Breakdown(2, 0))}

\* the lists get_event_teams returns
EventTeams ==
    {<<1, 2, 3, 4, 5, 6, 7>>, <<4, 7, 1, 6, 2, 5, 3>>, <<1, 2, 4, 5>>}

\* every team of a record is a team of the event
TeamsOf(record) ==
    {team_number_from_id(k) :
        k \in Elems(record.alliances.red.team_keys)
                \cup Elems(record.alliances.blue.team_keys)}

ReplayArgs ==
    {[kind |-> "args", fn |-> "get_team_rank", run |-> 1, first |-> None,
      team_number |-> team_number, teams |-> teams, records |-> records] :
        team_number \in {1, 6, 7}, teams \in EventTeams,
        records \in {r \in UNION {[1..n -> EventRecords] :
                                    n \in 0..MaxEventMatches} :
                        \A i, j \in DOMAIN r : r[i].key = r[j].key => i = j}}

\* the data of one event: the target and every team of a match are teams
\* of the event
InitReplay ==
    /\ Loaded
    /\ state_STATE.state_json = EmptyDict
    /\ state_CACHE.state_json = EmptyDict
    /\ call \in ReplayArgs
    /\ call.team_number \in Elems(call.teams)
    /\ \A i \in DOMAIN call.records :
            TeamsOf(call.records[i]) \subseteq Elems(call.teams)

ReplayBegin ==
    /\ call.kind = "args"
    /\ call.fn = "get_team_rank"
    /\ call' = replay_begin(call)
    /\ UNCHANGED rest

ReplayStep ==
    /\ call.kind = "get_team_rank"
    /\ ~replay_over(call)
    /\ call' = replay_step(call)
    /\ UNCHANGED rest

\* the command given a second time with the same data
ReplayAgain ==
    /\ call.kind = "get_team_rank"
    /\ replay_over(call)
    /\ call.run = 1
    /\ call' = [kind |-> "args", fn |-> "get_team_rank", run |-> 2,
                first |-> outcome(call),
                team_number |-> call.team_number, teams |-> call.teams,
                records |-> call.records]
    /\ UNCHANGED rest

ReplayNext == ReplayBegin \/ ReplayStep \/ ReplayAgain

SpecReplay == InitReplay /\ [][ReplayNext]_vars

\* the data of an event taken as it comes: the list of teams may lack the
\* target or a team of a match
AnyEventTeams == EventTeams \cup {<<1, 2, 3, 4, 5>>, <<1, 2, 3, 4, 5, 6>>}

AnyReplayArgs ==
    {[kind |-> "args", fn |-> "get_team_rank", run |-> 1, first |-> None,
      team_number |-> team_number, teams |-> teams, records |-> records] :
        team_number \in {1, 6, 7}, teams \in AnyEventTeams,
        records \in {r \in UNION {[1..n -> EventRecords] :
                                    n \in 0..MaxEventMatches} :
                        \A i, j \in DOMAIN r : r[i].key = r[j].key => i = j}}

InitAnyReplay ==
    /\ Loaded
    /\ state_STATE.state_json = EmptyDict
    /\ state_CACHE.state_json = EmptyDict
    /\ call \in AnyReplayArgs

\* the two plot_line calls that follow the loop
ReplayPlot ==
    /\ call.kind = "get_team_rank"
    /\ call.raised = None
    /\ call.i > Len(call.matches)
    /\ ~call.plotted
    /\ call' = [call EXCEPT !.plotted = TRUE]
    /\ UNCHANGED rest

AnyReplayNext == ReplayBegin \/ ReplayStep \/ ReplayPlot

SpecAnyReplay == InitAnyReplay /\ [][AnyReplayNext]_vars

\* ------------------------------------------- the commands that write STATE
\* the arguments of set_cache_expiration_time: one unit of each branch and
\* two that no branch names
CommandTimes == {0, 1, 2}
CommandUnits == {"d", "hour", "minutes", "s", "weeks", "D"}

CommandArgs ==
    [kind : {"args"}, fn : {"set_cache_expiration_time"},
     priviledged : BOOLEAN, time : CommandTimes, unit : CommandUnits]

\* the arguments of set_scouting_sheet; `credentials` is whether the sheets
\* service could be built
SheetArgs ==
    [kind : {"args"}, fn : {"set_scouting_sheet"},
     priviledged : BOOLEAN, event : {"2023cabl"}, sheet_id : {"sheet"},
     credentials : BOOLEAN]

InitCommand ==
    /\ Loaded
    /\ call \in CommandArgs \cup SheetArgs

\* Blue1.set_scouting_sheet(ctx, event, sheet_id)
set_scouting_sheet(priviledged, event, sheet_id, credentials) ==
    LET key == "scouting_sheet_id_2023cabl"
        value == [str |-> sheet_id]
    IN
    /\ call' = [kind |-> "sheet", priviledged |-> priviledged,
                raised |-> (priviledged /\ ~credentials)]
    /\ IF priviledged /\ credentials
       THEN /\ state_STATE' = FileDictMonad_set(state_STATE, key, value)
            /\ disk' = FileDictMonad_set_disk(disk, state_STATE, key, value)
       ELSE UNCHANGED <<state_STATE, disk>>
    /\ UNCHANGED <<state_CACHE, cache_hits, cache_misses, clock, last_set,
                   live_fetches, requests_ttl, requests_off, classified>>

Command ==
    /\ call.kind = "args"
    /\ call.fn = "set_cache_expiration_time"
    /\ set_cache_expiration_time(call.priviledged, call.time, call.unit)

SetSheet ==
    /\ call.kind = "args"
    /\ call.fn = "set_scouting_sheet"
    /\ set_scouting_sheet(call.priviledged, call.event, call.sheet_id,
                          call.credentials)

\* the next command arrives
CommandAgain ==
    /\ call.kind \in {"set", "sheet"}
    /\ call' \in CommandArgs \cup SheetArgs
    /\ UNCHANGED rest

CommandNext == Command \/ SetSheet \/ CommandAgain

SpecCommand == InitCommand /\ [][CommandNext]_vars

\* ------------------------------------------------------ the plotting flag
\* The commands are coroutines of one event loop: a command runs from one
\* await to the next before any other command runs. `running` is the
\* command holding the loop, 0 when the loop is free.
MaxCommands == 3
Commands == 1..MaxCommands

\* the commands that plot: get_team_rank, with two plot_line calls, and
\* compare_teams_event, with one section of its own (the commands that call
\* plot_line once go through the same steps as the latter)
PlotFns == {"get_team_rank", "compare_teams_event"}

plot_calls(fn) == IF fn = "get_team_rank" THEN 2 ELSE 1

PlotFrame(fn) ==
    [kind |-> "plot", plotting |-> FALSE, running |-> 0, naps |-> 0,
     pc |-> [c \in Commands |-> "idle"], fn |-> fn,
     plots |-> [c \in Commands |-> plot_calls(fn[c])]]

InitPlot ==
    /\ Loaded
    /\ call \in {PlotFrame(fn) : fn \in [Commands -> PlotFns]}

\* a wait that never finds the plot taken
is_waiting_never(plotting) == FALSE

\* while self.plotting
is_waiting(plotting) == plotting

\* the loop starts a command, which runs up to its wait on the flag
PlotBegin ==
    \E c \in Commands :
        /\ call.running = 0
        /\ call.pc[c] = "idle"
        /\ call' = [call EXCEPT !.running = c, !.pc[c] = "check"]
        /\ UNCHANGED rest

\* while self.plotting: sleep(0.25) ; time.sleep blocks the loop, so the
\* command keeps it while it waits; `naps` is the parity of the sleeps
PlotWait ==
    \E c \in Commands :
        /\ call.running = c
        /\ call.pc[c] \in {"check", "sleep"}
        /\ call' = IF is_waiting(call.plotting)
                   THEN [call EXCEPT !.pc[c] = "sleep", !.naps = 1 - @]
                   ELSE [call EXCEPT !.pc[c] = "reserve"]
        /\ UNCHANGED rest

\* self.plotting = True
PlotReserve ==
    \E c \in Commands :
        /\ call.running = c
        /\ call.pc[c] = "reserve"
        /\ call' = [call EXCEPT !.plotting = TRUE, !.pc[c] = "draw"]
        /\ UNCHANGED rest

\* the pyplot calls up to savefig and clf; when one of them raises the
\* exception leaves the command and the loop is free again
PlotDraw ==
    \E c \in Commands, ok \in BOOLEAN :
        /\ call.running = c
        /\ call.pc[c] = "draw"
        /\ call' = IF ok
                   THEN [call EXCEPT !.pc[c] = "release"]
                   ELSE [call EXCEPT !.pc[c] = "failed", !.running = 0]
        /\ UNCHANGED rest

\* self.plotting = False
PlotRelease ==
    \E c \in Commands :
        /\ call.running = c
        /\ call.pc[c] = "release"
        /\ call' = [call EXCEPT !.plotting = FALSE, !.pc[c] = "send"]
        /\ UNCHANGED rest

\* await ctx.send(...): the command gives the loop up
PlotSend ==
    \E c \in Commands :
        /\ call.running = c
        /\ call.pc[c] = "send"
        /\ call' = [call EXCEPT !.pc[c] = "sending", !.running = 0]
        /\ UNCHANGED rest

\* the send is over: os.remove, and the command returns or goes on to its
\* next plot_line
PlotResume ==
    \E c \in Commands :
        /\ call.running = 0
        /\ call.pc[c] = "sending"
        /\ call' = IF call.plots[c] > 1
                   THEN [call EXCEPT !.plots[c] = @ - 1, !.pc[c] = "check",
                                     !.running = c]
                   ELSE [call EXCEPT !.plots[c] = @ - 1, !.pc[c] = "done"]
        /\ UNCHANGED rest

\* a user sends the command again
PlotAgain ==
    \E c \in Commands :
        /\ call.running = 0
        /\ call.pc[c] \in {"done", "failed"}
        /\ call' = [call EXCEPT !.pc[c] = "idle",
                                !.plots[c] = plot_calls(call.fn[c])]
        /\ UNCHANGED rest

PlotNext ==
    \/ PlotBegin \/ PlotWait \/ PlotReserve \/ PlotDraw
    \/ PlotRelease \/ PlotSend \/ PlotResume \/ PlotAgain

SpecPlot == InitPlot /\ [][PlotNext]_vars

\* the loop runs whatever is ready to run
SpecPlotFair == SpecPlot /\ WF_vars(PlotNext)

\* -------------------------------------------------------------- events.py
MaxSubscribers == 2

\* EventType, a StrEnum of auto() values
RANK_CHANGED == "rank_changed"
MATCH_SCOUTED == "match_scouted"

\* the EventOptions a caller may subscribe; every subscribe passes an
\* object of its own, which prev_state is keyed by
EventOptionsArgs ==
    [type : {RANK_CHANGED}, frc_event : {"2023cabl"},
     team : {None, py_int(1)}]
        \cup [type : {MATCH_SCOUTED}, frc_event : {"2023cabl"},
              team : {py_int(1)}]

\* what Tba.get_event_rankings returns: None when the request failed, else
\* the (rank, team number) pairs in rank order; an event has no rankings
\* before its first match
RankingsLists ==
    {<<>>,
     << <<1, 1>>, <<2, 2>>, <<3, 3>> >>,
     << <<1, 1>>, <<2, 3>>, <<3, 2>> >>,
     << <<1, 2>>, <<2, 1>>, <<3, 3>> >>}

\* the last row of the scouting sheet of the event, as get_row_dict gives
\* it; no dict when the event has no active sheet
SheetRows == {[k \in {"Team Number"} |-> "1"]}

Worlds ==
    [rankings : [list : RankingsLists] \cup {None},
     row : [dict : SheetRows] \cup {None}]

\* { v: k for (k, v) in rankings_list }
rankings_of(list) ==
    [t \in {list[i][2] : i \in DOMAIN list} |->
        list[CHOOSE i \in DOMAIN list :
                /\ list[i][2] = t
                /\ \A j \in DOMAIN list : list[j][2] = t => j <= i][1]]

\* get_event_state(event); iterating a None rankings list raises TypeError
get_event_state(event, world) ==
    IF event.type = RANK_CHANGED
    THEN IF world.rankings = None THEN [raise |-> "TypeError"]
         ELSE [dict |-> rankings_of(world.rankings.list)]
    ELSE IF world.row = None THEN [dict |-> <<>>]
         ELSE [dict |-> world.row.dict]

\* should_produce_event(event, prev_state, curr_state); the name EvenType
\* of the second branch is bound nowhere
should_produce_event(event, prev_state, curr_state) ==
    IF prev_state = curr_state \/ curr_state = None
    THEN [return |-> FALSE]
    ELSE IF prev_state = None \/ event.team = None
    THEN [return |-> TRUE]
    ELSE IF event.type = RANK_CHANGED
    THEN IF event.team.int \notin DOMAIN prev_state.dict
            \/ event.team.int \notin DOMAIN curr_state.dict
         THEN [raise |-> "KeyError"]
         ELSE [return |-> prev_state.dict[event.team.int]
                            # curr_state.dict[event.team.int]]
    ELSE [raise |-> "NameError"]

\* the loop of produce_events from subscriber n on
RECURSIVE produce_loop(_, _, _)
produce_loop(f, world, n) ==
    IF n > Len(f.subscribers) THEN [f EXCEPT !.reached = Len(f.subscribers)]
    ELSE
        LET opts == f.subscribers[n]
            curr_state == get_event_state(opts, world)
            emit == should_produce_event(opts, f.prev_state[n], curr_state)
        IN  IF "raise" \in DOMAIN curr_state
            THEN [f EXCEPT !.raised = curr_state.raise, !.reached = n]
            ELSE IF "raise" \in DOMAIN emit
            THEN [f EXCEPT !.raised = emit.raise, !.reached = n]
            ELSE IF emit.return
            THEN produce_loop(
                    [f EXCEPT !.prev_state[n] = curr_state,
                              !.event_states =
                                  Append(@, [opts |-> n, state |-> curr_state])],
                    world, n + 1)
            ELSE produce_loop(f, world, n + 1)

EventKinds == {"EventManager", "subscribe", "produce_events", "WorldChange"}

\* a manager with no subscriber; `quiet` is whether the last thing that
\* happened was a produce_events, `was_quiet` its value when the call held
\* in the frame began, `reached` the last subscriber its loop came to
EventManager(world) ==
    [kind |-> "EventManager", subscribers |-> <<>>, prev_state |-> <<>>,
     world |-> world, quiet |-> FALSE, was_quiet |-> FALSE,
     prev_before |-> <<>>, event_states |-> <<>>, raised |-> "",
     reached |-> 0, result |-> None]

InitEvents ==
    /\ Loaded
    /\ call \in {EventManager(world) : world \in Worlds}

\* EventManager.subscribe(event)
subscribe ==
    \E event \in EventOptionsArgs :
        /\ call.kind \in EventKinds
        /\ Len(call.subscribers) < MaxSubscribers
        /\ call' = [call EXCEPT !.kind = "subscribe",
                                !.subscribers = Append(@, event),
                                !.prev_state = Append(@, None),
                                !.quiet = FALSE,
                                !.was_quiet = FALSE,
                                !.prev_before = <<>>,
                                !.event_states = <<>>,
                                !.raised = "",
                                !.reached = 0,
                                !.result = None]
        /\ UNCHANGED rest

\* EventManager.produce_events(); the list is returned only when the loop
\* ran to its end
produce_events ==
    LET f == produce_loop([call EXCEPT !.kind = "produce_events",
                                       !.prev_before = call.prev_state,
                                       !.event_states = <<>>,
                                       !.raised = "",
                                       !.was_quiet = call.quiet,
                                       !.quiet = TRUE],
                          call.world, 1)
    IN
    /\ call.kind \in EventKinds
    /\ call' = [f EXCEPT !.result = IF f.raised = ""
                                    THEN [list |-> f.event_states]
                                    ELSE None]
    /\ UNCHANGED rest

\* the rankings or the sheet change between two calls
WorldChange ==
    \E world \in Worlds :
        /\ call.kind \in EventKinds
        /\ world # call.world
        /\ call' = [call EXCEPT !.kind = "WorldChange", !.world = world,
                                !.quiet = FALSE]
        /\ UNCHANGED rest

EventsNext == subscribe \/ produce_events \/ WorldChange

SpecEvents == InitEvents /\ [][EventsNext]_vars

\* --------------------------------------------------------- the properties
RequestKinds == {"disabled", "miss", "hit"}

\* this step is a make_api_request(self, path)
RequestStep(self, path) ==
    /\ requests_ttl'[self] + requests_off'[self]
         = requests_ttl[self] + requests_off[self] + 1
    /\ call'.kind \in RequestKinds
    /\ call'.self = self
    /\ call'.path = path

\* the TTL and the entry a request for `path` finds
TTL == FileDictMonad_get(state_STATE, "cache_expiration_time")
Entry(path) == FileDictMonad_get(state_CACHE, path)

\* C1: with a TTL configured, a request for a path whose entry was stored at
\* time t makes no live call and adds exactly 1 to cache_hits when
\* now - t <= TTL, and makes exactly one live call and adds exactly 1 to
\* cache_misses when now - t > TTL (now and t as the code reads the clock)
C1_FetchThrough ==
    [][\A self \in Tbas, path \in Paths :
        (RequestStep(self, path) /\ TTL # None /\ Entry(path) # None) =>
            IF round(clock) - Entry(path).time <= TTL.int
            THEN /\ live_fetches' = live_fetches
                 /\ cache_hits' = [cache_hits EXCEPT ![self] = @ + 1]
                 /\ cache_misses' = cache_misses
            ELSE /\ live_fetches' = [live_fetches EXCEPT ![self] = @ + 1]
                 /\ cache_misses' = [cache_misses EXCEPT ![self] = @ + 1]
                 /\ cache_hits' = cache_hits]_vars

\* a hit on an entry this process stored at least one second earlier
C1_Witness ==
    /\ call.kind = "hit"
    /\ call.path = "event/2023cabl/matches"
    /\ call.now - call.cache_item.time >= 1
    /\ call.now - call.cache_item.time = call.cache_expiration_time.int
    /\ cache_misses[call.self] >= 1

C3_FailedFetch ==
    [][\A self \in Tbas, path \in Paths :
        (/\ RequestStep(self, path)
         /\ TTL # None
         /\ \/ Entry(path) = None
            \/ round(clock) - Entry(path).time > TTL.int
         /\ call'.response \in Responses
         /\ call'.response.status_code # HTTP_OK) =>
            /\ live_fetches' = [live_fetches EXCEPT ![self] = @ + 1]
            /\ call'.fetches = 1
            /\ call'.result = None
            /\ ~call'.raised
            /\ cache_misses' = [cache_misses EXCEPT ![self] = @ + 1]
            /\ cache_hits' = cache_hits
            /\ state_CACHE' = state_CACHE
            /\ disk' = disk]_vars

\* a failed refresh of an expired entry, which is still in the cache
C3_Witness ==
    /\ call.kind = "miss"
    /\ call.response \in Responses
    /\ call.response.status_code = 404
    /\ call.cache_item # None
    /\ Entry(call.path) = call.cache_item

\* C4: with no TTL configured, a request makes exactly one live call, does
\* not write the cache and leaves both counters as they were, whatever the
\* cache holds for the path
C4_Disabled ==
    [][\A self \in Tbas, path \in Paths :
        (RequestStep(self, path) /\ TTL = None) =>
            /\ live_fetches' = [live_fetches EXCEPT ![self] = @ + 1]
            /\ call'.fetches = 1
            /\ state_CACHE' = state_CACHE
            /\ disk' = disk
            /\ cache_hits' = cache_hits
            /\ cache_misses' = cache_misses]_vars

\* a request with caching disabled for a path the cache holds an entry for
C4_Witness ==
    /\ call.kind = "disabled"
    /\ Entry(call.path) # None
    /\ live_fetches[call.self] >= 1

\* C5: make_api_request returns a payload or None, and None when the live
\* call returned a non-success status
C5_PayloadOrNone ==
    (call.kind \in RequestKinds /\ ~call.raised) =>
        /\ call.result \in Payloads \cup {None}
        /\ (call.response \in Responses /\ call.response.status_code # HTTP_OK)
              => call.result = None

\* C6: a live call that raises a transport error ends in a None result; no
\* exception leaves make_api_request
C6_TransportErrorAbsorbed ==
    (call.kind \in RequestKinds /\ call.response = ConnectionError) =>
        /\ ~call.raised
        /\ call.result = None

\* C7: get_cache_hit_rate does not raise when both counters are zero
C7_NoDivisionByZero ==
    (/\ call.kind = "rate"
     /\ cache_hits[BotTba] = 0
     /\ cache_misses[BotTba] = 0) => ~call.raised

\* C8: after h requests classified as hits and m as misses on the bot's
\* client, h + m > 0, the rate get_cache_hit_rate computes is h / (h + m)
C8_HitRate ==
    LET h == classified[BotTba].hit
        m == classified[BotTba].miss
    IN  (call.kind = "rate" /\ h + m > 0) =>
            /\ ~call.raised
            /\ call.rate.den > 0
            /\ call.rate.num * (h + m) = h * call.rate.den

\* the rate read after one hit and one miss
C8_Witness ==
    /\ call.kind = "rate"
    /\ classified[BotTba].hit = 1
    /\ classified[BotTba].miss = 1
    /\ call.rate = [num |-> 1, den |-> 2]

\* what one step may do to the counters of each client
CounterStep ==
    \A self \in Tbas :
        /\ cache_hits'[self] >= cache_hits[self]
        /\ cache_misses'[self] >= cache_misses[self]
        /\ \/ /\ cache_hits'[self] = cache_hits[self]
              /\ cache_misses'[self] = cache_misses[self]
           \/ /\ cache_hits'[self] = cache_hits[self] + 1
              /\ cache_misses'[self] = cache_misses[self]
           \/ /\ cache_hits'[self] = cache_hits[self]
              /\ cache_misses'[self] = cache_misses[self] + 1

\* what the counters of each client add up to
CounterSums ==
    \A self \in Tbas :
        /\ cache_hits[self] + cache_misses[self] = requests_ttl[self]
        /\ live_fetches[self] = cache_misses[self] + requests_off[self]

\* C9: the counters never decrease; a request changes at most one of them,
\* by exactly 1; hits + misses is the number of requests made with a TTL
\* configured, and the live calls are the misses plus the requests made
\* with no TTL configured
C9_Counters == [][CounterStep]_vars /\ []CounterSums

\* one client has counted a hit and a miss, the other nothing
C9_Witness ==
    \E self \in Tbas :
        /\ cache_hits[self] = 1
        /\ cache_misses[self] = 1
        /\ \A other \in Tbas \ {self} :
            cache_hits[other] + cache_misses[other] = 0

\* C10: get(k) is None for a key never set, and otherwise the value of the
\* last set(k, _); nothing else is held by the store
C10_GetSet ==
    /\ \A k \in StoreKeys :
        FileDictMonad_get(state_CACHE, k)
            = IF k \in DOMAIN last_set THEN last_set[k] ELSE None
    /\ state_CACHE.state_json = last_set
    /\ call.kind = "store_get" =>
        call.result = IF call.key \in DOMAIN last_set
                      THEN last_set[call.key] ELSE None
    /\ call.kind = "store_set" =>
        FileDictMonad_get(state_CACHE, call.key) = call.value

\* a set that has overwritten another value of the key
C10_Witness ==
    /\ call.kind = "store_set"
    /\ call.old = [json |-> "a"]
    /\ call.value = [json |-> "b"]
    /\ FileDictMonad_get(state_CACHE, call.key) = [json |-> "b"]
    /\ \E k \in StoreKeys : k # call.key /\ k \in DOMAIN last_set

\* C11: when a set has returned the file holds exactly the in-memory
\* mapping, and a later process constructed on the file returns, for every
\* key set by a completed set, the value last set
C11_Durable ==
    /\ call.kind = "store_set" =>
        json_load(disk[CACHE_FILE_PATH]) = state_CACHE.state_json
    /\ call.kind = "restart" =>
        \A k \in DOMAIN last_set :
            FileDictMonad_get(state_CACHE, k) = last_set[k]

\* a later process holding a value that an earlier process of this run set
C11_Witness ==
    /\ call.kind = "restart"
    /\ "scouting_sheet_id_2023cabl" \in DOMAIN last_set
    /\ FileDictMonad_get(state_CACHE, "scouting_sheet_id_2023cabl")
         = [json |-> "b"]
    /\ FileDictMonad_get(state_CACHE, "status") = [json |-> "a"]

\* C12: at every point of a set the file holds the complete mapping of
\* before the set or the complete mapping of after it, and a process that
\* loads the file never finds it empty or half-written
C12_AtomicWrite ==
    /\ call.kind = "set_opened" =>
        disk[CACHE_FILE_PATH]
            \in {call.before, json_dumps(state_CACHE.state_json)}
    /\ call.kind # "init_failed"

\* C13: a path that has an entry keeps an entry in every later state, and
\* a step changes the entry of no path other than the one it stores under
C13_NoEviction ==
    [][\A p \in Paths :
        /\ p \in DOMAIN state_CACHE.state_json
             => p \in DOMAIN state_CACHE'.state_json
        /\ Entry(p)' # Entry(p) =>
             /\ call'.kind = "miss"
             /\ call'.stored
             /\ call'.path = p]_vars

\* a store under one path with the entry of the other path still there
C13_Witness ==
    /\ call.kind = "miss"
    /\ call.stored
    /\ call.path = "event/2023cabl/matches"
    /\ Entry("status") = [time |-> 0, response |-> [json |-> "a"]]
    /\ Entry("event/2023cabl/matches") # None

\* C15: for integer scores (r, b) the constructed scores are both present
\* or both absent, both absent exactly when r < 0 and b < 0, and
\* was_played() is true exactly when both are present; with one negative
\* score the match is played and keeps that score
C15_Played ==
    call.kind = "Match" =>
        LET r == call.json.alliances.red.score
            b == call.json.alliances.blue.score
            m == call.match
        IN  /\ (m.red_alliance_score = None) <=> (m.blue_alliance_score = None)
            /\ (m.red_alliance_score = None) <=> (r < 0 /\ b < 0)
            /\ was_played(m) <=>
                (m.red_alliance_score # None /\ m.blue_alliance_score # None)
            /\ ~(r < 0 /\ b < 0) =>
                /\ m.red_alliance_score = py_int(r)
                /\ m.blue_alliance_score = py_int(b)

\* a record with exactly one negative score, constructed as played
C15_Witness ==
    /\ call.kind = "Match"
    /\ call.json.alliances.red.score = -1
    /\ call.json.alliances.blue.score = 2
    /\ was_played(call.match)
    /\ call.match.red_alliance_score = py_int(-1)

\* C16: get_team_score is the red score for a team of the red alliance,
\* the blue score for a team of the blue alliance and None for any other
\* team; for a played match and a team of either alliance it is not None
C16_TeamScore ==
    call.kind = "get_team_score" =>
        LET m == call.match
            t == call.team_number
            in_red == \E i \in DOMAIN m.red_alliance_teams :
                          m.red_alliance_teams[i] = t
            in_blue == \E i \in DOMAIN m.blue_alliance_teams :
                          m.blue_alliance_teams[i] = t
        IN  /\ in_red => call.result = m.red_alliance_score
            /\ in_blue => call.result = m.blue_alliance_score
            /\ (~in_red /\ ~in_blue) => call.result = None
            /\ (was_played(m) /\ (in_red \/ in_blue)) => call.result # None

\* the score of a blue team in a played match with different scores
C16_Witness ==
    /\ call.kind = "get_team_score"
    /\ call.team_number = 5
    /\ call.match.blue_alliance_teams = <<4, 5, 6>>
    /\ call.match.red_alliance_score = py_int(2)
    /\ call.result = py_int(0)

\* C17: a constructed Match has three red and three blue team numbers, no
\* team in both alliances and none twice in one
C17_Alliances ==
    call.kind = "Match" =>
        LET red == call.match.red_alliance_teams
            blue == call.match.blue_alliance_teams
        IN  /\ Len(red) = 3
            /\ Len(blue) = 3
            /\ Cardinality(Elems(red) \cup Elems(blue)) = 6

sign(n) == IF n < 0 THEN -1 ELSE IF n > 0 THEN 1 ELSE 0

\* C18: on played matches of one event with levels qm, sf, f, match_cmp is
\* a strict total order: the sign of match_cmp(x, y) is the opposite of the
\* sign of match_cmp(y, x), x before y and y before z give x before z, and
\* match_cmp(x, y) = 0 only for the same level, set number and match number
C18_StrictTotalOrder ==
    (/\ call.kind = "match_cmp"
     /\ was_played(call.x) /\ was_played(call.y) /\ was_played(call.z)) =>
        /\ sign(call.xy.int) = -sign(call.yx.int)
        /\ (call.xy.int < 0 /\ call.yz.int < 0) => call.xz.int < 0
        /\ call.xy.int = 0 =>
            /\ call.x.comp_level = call.y.comp_level
            /\ call.x.set_number = call.y.set_number
            /\ call.x.match_number = call.y.match_number

LevelRank(level) == CASE level = "qm" -> 0 [] level = "sf" -> 1 [] level = "f" -> 2

\* C19: sorting a list of played matches of one event puts qualification
\* before semifinal before final matches, orders one level by non-decreasing
\* set_number * match_number, and sorting the result again returns it
C19_Sorted ==
    (/\ call.kind = "sorted"
     /\ \A i \in DOMAIN call.matches : was_played(call.matches[i])) =>
        /\ \A i, j \in DOMAIN call.result :
            i < j =>
                /\ LevelRank(call.result[i].comp_level)
                        <= LevelRank(call.result[j].comp_level)
                /\ call.result[i].comp_level = call.result[j].comp_level =>
                        call.result[i].set_number * call.result[i].match_number
                     <= call.result[j].set_number * call.result[j].match_number
        /\ call.again = call.result

\* a final, a semifinal and a qualification match handed over in that order
C19_Witness ==
    /\ call.kind = "sorted"
    /\ Len(call.matches) = 3
    /\ \A i \in DOMAIN call.matches : was_played(call.matches[i])
    /\ call.matches[1].comp_level = "f"
    /\ call.matches[2].comp_level = "sf"
    /\ call.matches[3].comp_level = "qm"
    /\ call.result[1].comp_level = "qm"
    /\ call.result[3].comp_level = "f"

\* C20: an unplayed match compares below a played one and a played one
\* above an unplayed one, whatever their levels and numbers, and a sorted
\* list has every unplayed match before every played match
C20_UnplayedFirst ==
    /\ (/\ call.kind = "match_cmp"
        /\ ~was_played(call.x)
        /\ was_played(call.y)) =>
            /\ call.xy.int < 0
            /\ call.yx.int > 0
    /\ call.kind = "sorted" =>
        \A i, j \in DOMAIN call.result :
            (was_played(call.result[i]) /\ ~was_played(call.result[j]))
                => i > j

\* an unplayed final handed over after two played qualification matches
C20_Witness ==
    /\ call.kind = "sorted"
    /\ Len(call.matches) = 3
    /\ was_played(call.matches[1])
    /\ was_played(call.matches[2])
    /\ ~was_played(call.matches[3])
    /\ call.matches[3].comp_level = "f"
    /\ call.matches[1].comp_level = "qm"
    /\ ~was_played(call.result[1])

\* C14: requests are not coalesced. A call started for a path whose entry
\* is absent or expired, while another call for that path is between its
\* lookup and its store, counts its own miss and goes on to its own live
\* fetch; every call that reached the fetch performs one; and when a call
\* stores its result the entry in the cache file is the one it wrote, so
\* the entry left is that of the put that completed last
C14_NotCoalesced ==
    [][\A p \in Processes :
        /\ (/\ call[p].kind # "fetching"
            /\ call'[p] # call[p]
            /\ InFlight(p, call'[p].path) # {}
            /\ is_miss(FileDictMonad_get(state_CACHE[p], call'[p].path),
                       round(clock),
                       FileDictMonad_get(state_STATE, "cache_expiration_time")))
            => /\ call'[p].kind = "fetching"
               /\ cache_misses'[p] = cache_misses[p] + 1
        /\ (call[p].kind = "fetching" /\ call'[p].kind = "miss")
            => /\ live_fetches'[p] = live_fetches[p] + 1
               /\ cache_misses'[p] = cache_misses[p]
               /\ call'[p].stored =>
                    /\ call'[p].path \in DOMAIN json_load(disk'[CACHE_FILE_PATH])
                    /\ json_load(disk'[CACHE_FILE_PATH])[call'[p].path]
                            = call'[p].value
                    /\ last_set'[call'[p].path] = call'[p].value
      ]_vars

\* process 2 started while process 1 was fetching the same path; both
\* fetched and stored different payloads, process 1 last
C14_Witness ==
    /\ call[1].kind = "miss"
    /\ call[2].kind = "miss"
    /\ call[1].path = call[2].path
    /\ 1 \in call[2].in_flight
    /\ call[1].stored
    /\ call[2].stored
    /\ call[1].value # call[2].value
    /\ live_fetches[1] = 1
    /\ live_fetches[2] = 1
    /\ cache_misses[1] = 1
    /\ cache_misses[2] = 1
    /\ last_set[call[1].path] = call[1].value
    /\ json_load(disk[CACHE_FILE_PATH])[call[1].path] = call[1].value

IsQualification(match) == match.comp_level = "qm"

\* the award of the alliance of `team` in `match`, 0 if it is on neither
AwardTo(match, team) ==
    IF team \in Elems(match.red_alliance_teams)
    THEN match.red_alliance_rp_awarded.int
    ELSE IF team \in Elems(match.blue_alliance_teams)
    THEN match.blue_alliance_rp_awarded.int
    ELSE 0

RECURSIVE AwardSum(_, _)
AwardSum(matches, team) ==
    IF matches = <<>> THEN 0
    ELSE AwardTo(Head(matches), team) + AwardSum(Tail(matches), team)

PlayedIn(matches, team) ==
    Cardinality({k \in DOMAIN matches :
        team \in Elems(matches[k].red_alliance_teams)
                    \cup Elems(matches[k].blue_alliance_teams)})

\* C21: at every point of the replay the matches folded are the
\* qualification matches among those passed, every team of the event has one
\* entry, its matches-played is the number of folded matches with the team
\* on an alliance and its points are the sum of its alliance's RP awards in
\* them: (0, 0) before the first match, and a team off both alliances of a
\* match keeps its pair
C21_Fold ==
    call.kind = "get_team_rank" =>
        /\ call.folded =
            SelectSeq(SubSeq(call.matches, 1, call.i - 1), IsQualification)
        /\ Len(call.team_ranks) = Len(call.teams)
        /\ {call.team_ranks[j].team : j \in DOMAIN call.team_ranks}
                = Elems(call.teams)
        /\ \A j \in DOMAIN call.team_ranks :
            LET rank == call.team_ranks[j]
            IN  /\ rank.matches = PlayedIn(call.folded, rank.team)
                /\ rank.rp = AwardSum(call.folded, rank.team)

\* three qualification matches folded: team 1 played all three for 4 points,
\* team 7 none
C21_Witness ==
    /\ call.kind = "get_team_rank"
    /\ Len(call.folded) = 3
    /\ \E j \in DOMAIN call.team_ranks :
        call.team_ranks[j] = [team |-> 1, rp |-> 4, matches |-> 3]
    /\ \E j \in DOMAIN call.team_ranks :
        call.team_ranks[j] = [team |-> 6, rp |-> 4, matches |-> 3]
    /\ \E j \in DOMAIN call.team_ranks :
        call.team_ranks[j] = [team |-> 7, rp |-> 0, matches |-> 0]

\* the pair of a team in the table
RankOf(team_ranks, team) ==
    CHOOSE r \in Elems(team_ranks) : r.team = team

\* a / b > c / d on the pairs (points, matches), 0 for no match played
Above(r, target) ==
    LET a == IF r.matches = 0 THEN 0 ELSE r.rp
        b == IF r.matches = 0 THEN 1 ELSE r.matches
        c == IF target.matches = 0 THEN 0 ELSE target.rp
        d == IF target.matches = 0 THEN 1 ELSE target.matches
    IN  a * d > c * b

\* C22: after every folded match the last rank is 1 plus the number of
\* teams of the event whose average RP is strictly greater than the
\* target's, a number in 1..|teams| that the order of the teams does not
\* enter, and the last average is the target's points over its matches
C22_Rank ==
    (call.kind = "get_team_rank" /\ call.rank_v_time # <<>>) =>
        LET target == RankOf(call.team_ranks, call.team_number)
            n == Len(call.rank_v_time)
        IN  /\ call.rank_v_time[n] =
                1 + Cardinality({t \in Elems(call.teams) :
                        Above(RankOf(call.team_ranks, t), target)})
            /\ call.rank_v_time[n] \in 1..Len(call.teams)
            /\ call.rp_avg_v_time[n].num * (IF target.matches = 0 THEN 1
                                             ELSE target.matches)
                = call.rp_avg_v_time[n].den * (IF target.matches = 0 THEN 0
                                                ELSE target.rp)

\* team 6 after two matches: average 3/2, tied with team 1 and behind teams
\* 2 and 3, so ranked third; after the first match it was behind three
C22_Witness ==
    /\ call.kind = "get_team_rank"
    /\ call.team_number = 6
    /\ call.teams = <<4, 7, 1, 6, 2, 5, 3>>
    /\ call.rank_v_time = <<4, 3>>
    /\ call.rp_avg_v_time[2] = [num |-> 3, den |-> 2]

\* C23: when the replay completes the two lists have the same length, the
\* number of qualification matches in the event's list, the matches the
\* target did not play included
C23_Lengths ==
    (/\ call.kind = "get_team_rank"
     /\ replay_over(call)
     /\ call.raised = None) =>
        LET qm == {i \in DOMAIN call.records :
                        call.records[i].comp_level = "qm"}
        IN  /\ Len(call.rank_v_time) = Cardinality(qm)
            /\ Len(call.rp_avg_v_time) = Cardinality(qm)

\* a completed replay of two qualification matches and a semifinal for
\* team 7, which played none
C23_Witness ==
    /\ call.kind = "get_team_rank"
    /\ replay_over(call)
    /\ call.raised = None
    /\ call.team_number = 7
    /\ Len(call.records) = 3
    /\ \E i \in DOMAIN call.records : call.records[i].comp_level = "sf"
    /\ Len(call.rank_v_time) = 2
    /\ Len(call.rp_avg_v_time) = 2

IsQualificationRecord(record) == record.comp_level = "qm"

\* the table as a set of (team, points, matches)
Pairs(team_ranks) == Elems(team_ranks)

\* C24: matches of another level than qm have no effect: when the replay
\* ends, the two lists and every team's (points, matches) pair are those of
\* the replay of the list without its semifinal and final matches
C24_OtherLevels ==
    (call.kind = "get_team_rank" /\ replay_over(call)) =>
        LET qm == replay_loop(replay_begin(
                    [call EXCEPT !.records =
                        SelectSeq(call.records, IsQualificationRecord)]))
        IN  /\ call.rank_v_time = qm.rank_v_time
            /\ call.rp_avg_v_time = qm.rp_avg_v_time
            /\ Pairs(call.team_ranks) = Pairs(qm.team_ranks)
            /\ call.raised = qm.raised

\* a completed replay of a list with a played semifinal between two
\* qualification matches
C24_Witness ==
    /\ call.kind = "get_team_rank"
    /\ replay_over(call)
    /\ call.raised = None
    /\ Len(call.records) = 3
    /\ call.records[2].comp_level = "sf"
    /\ call.records[2].alliances.red.score = 2
    /\ Len(call.folded) = 2

NeverPlays(team_number, matches) ==
    \A i \in DOMAIN matches :
        matches[i].comp_level = "qm" =>
            team_number \notin Elems(matches[i].red_alliance_teams)
                                \cup Elems(matches[i].blue_alliance_teams)

\* C26: for a target of the event that is on no alliance of any
\* qualification match the replay completes without error, every average
\* is 0 and every rank is 1 plus the number of teams with an average above 0
C26_NeverPlays ==
    (/\ call.kind = "get_team_rank"
     /\ NeverPlays(call.team_number, call.matches)) =>
        /\ call.raised = None
        /\ \A n \in DOMAIN call.rp_avg_v_time : call.rp_avg_v_time[n].num = 0
        /\ call.rank_v_time # <<>> =>
            call.rank_v_time[Len(call.rank_v_time)] =
                1 + Cardinality({j \in DOMAIN call.team_ranks :
                        call.team_ranks[j].matches # 0
                        /\ call.team_ranks[j].rp > 0})

\* C27: the matches folded come in schedule order: set_number * match_number
\* never decreases along them, whatever the order of the list and whatever
\* unplayed matches it holds
C27_ScheduleOrder ==
    call.kind = "get_team_rank" =>
        \A i, j \in DOMAIN call.folded :
            i < j => overall_number(call.folded[i])
                        <= overall_number(call.folded[j])

\* qualification 3 arrived first, an unplayed final second, qualification 1
\* last; 1 was folded before 3
C27_Witness ==
    /\ call.kind = "get_team_rank"
    /\ Len(call.records) = 3
    /\ call.records[1].comp_level = "qm"
    /\ call.records[1].match_number = 3
    /\ call.records[2].comp_level = "f"
    /\ call.records[3].match_number = 1
    /\ Len(call.folded) = 2
    /\ call.folded[1].match_number = 1
    /\ call.folded[2].match_number = 3

\* C30: every match folded is a played qualification match with both RP
\* awards; an unplayed qualification match and a played one without
\* breakdown are in no team's points or matches
C30_FoldedPlayed ==
    call.kind = "get_team_rank" =>
        /\ \A k \in DOMAIN call.folded :
            /\ call.folded[k].comp_level = "qm"
            /\ was_played(call.folded[k])
            /\ call.folded[k].red_alliance_rp_awarded # None
            /\ call.folded[k].blue_alliance_rp_awarded # None
        /\ \A j \in DOMAIN call.team_ranks :
            call.team_ranks[j].matches =
                PlayedIn(call.folded, call.team_ranks[j].team)

\* the replay stopped at a played qualification match without breakdown,
\* after one folded match
C30_Witness ==
    /\ call.kind = "get_team_rank"
    /\ call.raised = [raise |-> "TypeError"]
    /\ call.matches[call.i].comp_level = "qm"
    /\ was_played(call.matches[call.i])
    /\ call.matches[call.i].red_alliance_rp_awarded = None
    /\ Len(call.folded) = 1
    /\ \E j \in DOMAIN call.team_ranks : call.team_ranks[j].matches = 1
    /\ \A j \in DOMAIN call.team_ranks : call.team_ranks[j].matches <= 1

KeysRead(fn) ==
    CASE fn = "get_team" -> TeamKeys
      [] fn = "get_event" -> EventKeys
      [] fn = "get_match" -> MatchKeys

\* C29: a lookup whose document lacks a key the constructor reads ends in
\* the error of the construction and returns no entity; an entity returned
\* was built from a document with every key, each attribute the document's
\* value
C29_NoPartialEntity ==
    (call.kind \in {"get_team", "get_event", "get_match"}
        /\ call.data # None) =>
        LET json == call.data.json
            keys == KeysRead(call.kind)
            gap == \E i \in DOMAIN keys : keys[i] \notin DOMAIN json
        IN  /\ gap => "raise" \in DOMAIN call.result
            /\ ~gap => "entity" \in DOMAIN call.result
            /\ (call.kind = "get_team" /\ ~gap) =>
                /\ call.result.nickname = json.nickname
                /\ call.result.team_number = json.team_number
                /\ call.result.state_or_province = json.state_prov
            /\ (call.kind = "get_event" /\ ~gap) =>
                /\ call.result.event_type = json.event_type_string
                /\ call.result.year = json.year
            /\ (call.kind = "get_match" /\ ~gap) =>
                /\ call.result.match.winning_alliance = json.winning_alliance
                /\ call.result.match.comp_level = json.comp_level

\* a team document without 'nickname': KeyError, no Team
C29_Witness ==
    /\ call.kind = "get_team"
    /\ call.data # None
    /\ "nickname" \notin DOMAIN call.data.json
    /\ "name" \in DOMAIN call.data.json
    /\ call.result = KeyError("nickname")

\* the qualification match is one the replay cannot fold
Malformed(f, match) ==
    \/ match.red_alliance_rp_awarded = None
    \/ match.blue_alliance_rp_awarded = None
    \/ ~(Elems(match.red_alliance_teams) \cup Elems(match.blue_alliance_teams)
            \subseteq Elems(f.teams))
    \/ f.team_number \notin Elems(f.teams)

\* C31: the replay stops with an error at a qualification match with an
\* absent award, with a team that is not of the event, or when the target
\* is not of the event: it never goes past such a match, nothing is
\* plotted once it has raised, and every rank and every average emitted
\* follows a match folded whole
C31_FailsLoudly ==
    call.kind = "get_team_rank" =>
        /\ \A k \in 1..(call.i - 1) :
            call.matches[k].comp_level = "qm"
                => ~Malformed(call, call.matches[k])
        /\ (call.i <= Len(call.matches)
                /\ call.matches[call.i].comp_level = "qm"
                /\ Malformed(call, call.matches[call.i])
                /\ replay_over(call)) => call.raised # None
        /\ call.raised # None => ~call.plotted
        /\ Len(call.rank_v_time) = Len(call.folded)
        /\ Len(call.rp_avg_v_time) = Len(call.folded)
        /\ call.folded =
            SelectSeq(SubSeq(call.matches, 1, call.i - 1), IsQualification)

\* team 6 is not in the list: the first match raised KeyError with teams
\* 1 to 5 already counted, and nothing was emitted
C31_Witness ==
    /\ call.kind = "get_team_rank"
    /\ call.teams = <<1, 2, 3, 4, 5>>
    /\ call.raised = [raise |-> "KeyError"]
    /\ \E j \in DOMAIN call.team_ranks :
        call.team_ranks[j] = [team |-> 5, rp |-> 0, matches |-> 1]
    /\ call.rank_v_time = <<>>
    /\ call.rp_avg_v_time = <<>>
    /\ ~call.plotted

\* C32: for levels x, y among qm, sf, f comp_level_cmp returns an integer,
\* one of -1, 0, 1: 0 exactly for x = y, the opposite of comp_level_cmp(y, x),
\* and negative exactly when x comes before y in qm < sf < f
C32_Levels ==
    call.kind = "comp_level_cmp" =>
        /\ call.xy # None
        /\ call.yx # None
        /\ call.xy.int \in {-1, 0, 1}
        /\ (call.xy.int = 0) <=> (call.x = call.y)
        /\ call.xy.int = -call.yx.int
        /\ (call.xy.int < 0) <=> (LevelRank(call.x) < LevelRank(call.y))

\* a qualification level against a semifinal level: -1
C32_Witness ==
    /\ call.kind = "comp_level_cmp"
    /\ call.x = "qm"
    /\ call.y = "sf"
    /\ call.xy = py_int(-1)
    /\ call.yx = py_int(1)

\* C33: a request that finds a fresh entry leaves the cache and its file
\* as they were, payload and timestamp, and a request changes the cache
\* only as a miss, on an absent or expired entry, whose live call returned
\* a success
C33_HitReadsOnly ==
    [][\A self \in Tbas, path \in Paths :
        RequestStep(self, path) =>
            /\ (/\ TTL # None
                /\ Entry(path) # None
                /\ round(clock) - Entry(path).time <= TTL.int) =>
                    /\ state_CACHE' = state_CACHE
                    /\ disk' = disk
            /\ state_CACHE' # state_CACHE =>
                    /\ call'.kind = "miss"
                    /\ TTL # None
                    /\ \/ Entry(path) = None
                       \/ round(clock) - Entry(path).time > TTL.int
                    /\ call'.response \in Responses
                    /\ call'.response.status_code = HTTP_OK
                    /\ Entry(path)'.response = call'.response.body]_vars

\* a hit one second after the entry was stored: the entry keeps its time
C33_Witness ==
    /\ call.kind = "hit"
    /\ call.now = call.cache_item.time + 1
    /\ Entry(call.path) = call.cache_item
    /\ cache_hits[call.self] = 1

\* C34: freshness is decided against the TTL in force when the request is
\* made: with caching enabled and an entry stored at time t, a request at
\* time now is a hit, returning the stored payload without a live call,
\* exactly when now - t <= TTL, and a miss otherwise; changing the TTL
\* writes no cache entry
C34_TtlAtRequestTime ==
    [][/\ \A self \in Tbas, path \in Paths :
            (RequestStep(self, path) /\ TTL # None /\ Entry(path) # None) =>
                /\ call'.kind \in {"hit", "miss"}
                /\ call'.kind = "hit" <=>
                        round(clock) - Entry(path).time <= TTL.int
                /\ call'.kind = "hit" =>
                        /\ call'.result = Entry(path).response
                        /\ call'.fetches = 0
       /\ TTL' # TTL => state_CACHE' = state_CACHE]_vars

\* the entry loaded from the file at time 0 is two seconds old, older than
\* the TTL of one second or of zero seconds, and was never refreshed; with
\* the TTL raised to a minute the first request for it is a hit that
\* returns the old payload
C34_Witness ==
    /\ call.kind = "hit"
    /\ call.cache_item.time = 0
    /\ call.now = 2
    /\ call.cache_expiration_time = py_int(60)
    /\ call.result = call.cache_item.response
    /\ \A t \in Tbas : cache_misses[t] = 0

\* C35: the counters belong to one client and the cache to the process: a
\* request on one client leaves the cache_hits and cache_misses of every
\* other client as they were, and an entry stored by a miss on one client
\* is served, within the TTL, as a hit to a request of another client for
\* the same path, which returns the payload the first client stored
C35_CountersPerClient ==
    [][\A self \in Tbas, path \in Paths :
        RequestStep(self, path) =>
            /\ \A other \in Tbas \ {self} :
                /\ cache_hits'[other] = cache_hits[other]
                /\ cache_misses'[other] = cache_misses[other]
            /\ (/\ call.kind = "miss"
                /\ call.stored
                /\ call.self # self
                /\ call.path = path
                /\ TTL # None
                /\ round(clock) - Entry(path).time <= TTL.int) =>
                    /\ call'.kind = "hit"
                    /\ call'.result = call.response.body
                    /\ cache_hits'[self] = cache_hits[self] + 1
                    /\ cache_misses'[self] = cache_misses[self]]_vars

\* client "TBA" missed and stored a path no file held; client "t" was then
\* served that entry: one miss on the first, one hit on the second
C35_Witness ==
    /\ call.kind = "hit"
    /\ call.self = "t"
    /\ call.path = "event/2023cabl/matches"
    /\ call.cache_item = last_set[call.path]
    /\ cache_misses = [t \in Tbas |-> IF t = "TBA" THEN 1 ELSE 0]
    /\ cache_hits = [t \in Tbas |-> IF t = "t" THEN 1 ELSE 0]

\* the TTL held by the state file
FileTTL ==
    LET doc == json_load(disk[STATE_FILE_PATH]) IN
    IF "cache_expiration_time" \in DOMAIN doc
    THEN doc["cache_expiration_time"] ELSE None

\* C36: set_cache_expiration_time with a unit it does not recognise leaves
\* the TTL, in memory and in the file, as it was, absent or a value; with a
\* recognised unit it stores time multiplied by 86400, 3600, 60 or 1 (the
\* handler returns before that for a caller without privileges); and no
\* command makes a TTL that was set absent again
C36_Units ==
    [][/\ (/\ call.kind = "args"
           /\ call.fn = "set_cache_expiration_time"
           /\ call' # call) =>
            LET stored(seconds) ==
                    IF call.priviledged
                    THEN /\ TTL' = py_int(call.time * seconds)
                         /\ FileTTL' = py_int(call.time * seconds)
                    ELSE /\ TTL' = TTL
                         /\ FileTTL' = FileTTL
            IN  CASE call.unit \in {"days", "day", "d"} -> stored(86400)
                  [] call.unit \in {"hours", "hour", "h"} -> stored(3600)
                  [] call.unit \in {"minutes", "minute", "m"} -> stored(60)
                  [] call.unit \in {"seconds", "second", "s"} -> stored(1)
                  [] OTHER -> /\ TTL' = TTL
                              /\ FileTTL' = FileTTL
       /\ TTL # None => TTL' # None
       /\ FileTTL # None => FileTTL' # None]_vars

\* the TTL was two days; a privileged caller then gave a unit no branch
\* names, the handler raised, and the TTL is still two days
C36_Witness ==
    /\ call.kind = "set"
    /\ call.priviledged
    /\ call.raised
    /\ TTL = py_int(172800)
    /\ FileTTL = py_int(172800)

\* the command is between its reserve and its release
InSection(c) == call.pc[c] \in {"draw", "release"}

\* C37: the plotting flag gives mutual exclusion: at most one command is
\* between reserve and release, the flag is True while one is, and no
\* command passes its wait while the flag is True
C37_MutualExclusion ==
    /\ [](/\ Cardinality({c \in Commands : InSection(c)}) <= 1
          /\ \A c \in Commands :
                /\ InSection(c) => call.plotting /\ call.running = c
                /\ call.pc[c] = "reserve" => ~call.plotting)
    /\ [][\A c \in Commands :
            (call.pc[c] \in {"check", "sleep"} /\ call'.pc[c] = "reserve")
                => ~call.plotting]_vars

\* one command draws while another, past its own release, is still
\* sending its picture and a third has not begun
C37_Witness ==
    \E c, d, e \in Commands :
        /\ call.pc[c] = "draw"
        /\ call.plotting
        /\ call.pc[d] = "sending"
        /\ call.pc[e] = "idle"

\* C38: a command that reserved the flag releases it, and a command that
\* waits on the flag goes on to reserve it
C38_Released ==
    \A c \in Commands :
        /\ (call.pc[c] = "draw") ~> ~call.plotting
        /\ (call.pc[c] = "sleep") ~> (call.pc[c] = "reserve")

\* the state get_event_state gave subscriber n in the call the frame
\* holds, None when it raised
StateSeen(n) ==
    LET curr_state == get_event_state(call.subscribers[n], call.world) IN
    IF "raise" \in DOMAIN curr_state THEN None ELSE curr_state

\* produce_events returned an event for subscriber n
Emitted(n) ==
    /\ call.result # None
    /\ \E e \in DOMAIN call.result.list : call.result.list[e].opts = n

\* should_produce_event holds for subscriber n
ShouldProduce(n) ==
    LET r == should_produce_event(call.subscribers[n], call.prev_before[n],
                                  StateSeen(n))
    IN  /\ "return" \in DOMAIN r
        /\ r.return

\* C39: produce_events emits an event for a subscriber its loop came to
\* exactly when should_produce_event holds for its previous and current
\* state, and sets its previous state, to the current one, only when it
\* emits; the first state seen after subscribe always emits; and a call
\* that follows another with nothing in between emits nothing
C39_ProduceEvents ==
    call.kind = "produce_events" =>
        /\ \A n \in 1..call.reached :
            /\ Emitted(n) <=> ShouldProduce(n)
            /\ call.prev_state[n] =
                    IF Emitted(n) THEN StateSeen(n) ELSE call.prev_before[n]
            /\ (call.prev_before[n] = None /\ StateSeen(n) # None)
                    => Emitted(n)
        /\ call.was_quiet => \A n \in DOMAIN call.subscribers : ~Emitted(n)

\* the rank of a team in a state, None where the state has none for it
RankIn(state, team) ==
    IF state # None /\ team.int \in DOMAIN state.dict
    THEN py_int(state.dict[team.int]) ELSE None

\* C40: a RANK_CHANGED subscription with a team filter, after its first
\* event, emits exactly when the rank of the team in the current rankings
\* differs from its rank in the state last emitted, and keeps its previous
\* state when the rank is the same
C40_RankChanged ==
    call.kind = "produce_events" =>
        \A n \in 1..call.reached :
            LET opts == call.subscribers[n] IN
            (/\ opts.type = RANK_CHANGED
             /\ opts.team # None
             /\ call.prev_before[n] # None
             /\ StateSeen(n) # None) =>
                /\ Emitted(n) <=>
                        RankIn(StateSeen(n), opts.team)
                            # RankIn(call.prev_before[n], opts.team)
                /\ RankIn(StateSeen(n), opts.team)
                        = RankIn(call.prev_before[n], opts.team)
                    => call.prev_state[n] = call.prev_before[n]

====
